---- MODULE Spec2Model ----
(***************************************************************************)
(* Model of the GoshawkDB topology transmogrifier (the on-line cluster     *)
(* reconfiguration state machine), its migration ledger, emigrator and     *)
(* the client transaction submitter.                                       *)
(*                                                                         *)
(* A pointer that may be nil is a sequence of length 0 or 1: Nil is <<>>   *)
(* and Some(x) is <<x>>.                                                   *)
(***************************************************************************)
EXTENDS Integers, Sequences, FiniteSets, TLC

VARIABLES
    tt,        \* [node -> TopologyTransmogrifier actor state]
    store,     \* the committed value of the topology variable (Nil or topology)
    obs,       \* [node -> topologies its write subscriber has still to deliver]
    em,        \* the emigrator of a peer and the scans it has started
    net,       \* the migration messages on their way to a node's actor
    led,       \* what has happened to a ledger entry so far (history)
    sts,       \* the SimpleTxnSubmitter of a node's client connection
    vm,        \* [var manager -> VarManager state and the state of its variables]
    tc         \* the topology changes given to the connection manager

vars == <<tt, store, obs, em, net, led, sts, vm, tc>>

Nil == <<>>
Some(x) == <<x>>

----------------------------------------------------------------------------
(* Bounds of the model *)

MaxVersion == 2      \* configuration versions range over 0..MaxVersion
MaxInstallQ == 1     \* SetTopology calls whose callback is still outstanding
MaxExes == 1         \* Exe closures waiting in the actor's queue

----------------------------------------------------------------------------
(* Data: configuration.Configuration, NextConfiguration, Topology *)

RMIdEmpty == 0

Conf(cid, v, hosts, f, rms, removed) ==
    [clusterId |-> cid, version |-> v, hosts |-> hosts, f |-> f,
     rms |-> rms, rmsRemoved |-> removed]

NextConf(cfg, allHosts, newRMIds, surviving, lost, pendingInstall, pending) ==
    [cfg |-> cfg, allHosts |-> allHosts, newRMIds |-> newRMIds,
     survivingRMIds |-> surviving, lostRMIds |-> lost,
     pendingInstall |-> pendingInstall, pending |-> pending]

\* &configuration.NextConfiguration{Configuration: config}
GoalOf(cfg) == NextConf(cfg, <<>>, <<>>, <<>>, <<>>, <<>>, <<>>)

Topology(cfg, next, dbVersion, root) ==
    [cfg |-> cfg, next |-> next, dbVersion |-> dbVersion, root |-> root]

\* Configuration.Equal: field-wise equality of the configuration and its next
ConfigurationEqual(a, b) == a.cfg = b.cfg /\ a.next = b.next

SeqToSet(q) == {q[i] : i \in 1..Len(q)}

RECURSIVE NonEmpty(_)
NonEmpty(rms) ==
    IF rms = <<>> THEN <<>>
    ELSE IF Head(rms) = RMIdEmpty THEN NonEmpty(Tail(rms))
    ELSE <<Head(rms)>> \o NonEmpty(Tail(rms))

NonEmptyLen(rms) == Len(NonEmpty(rms))

\* Sequence of the elements of q that satisfy membership in S, order kept
RECURSIVE Filter(_, _)
Filter(q, S) ==
    IF q = <<>> THEN <<>>
    ELSE IF Head(q) \in S THEN <<Head(q)>> \o Filter(Tail(q), S)
    ELSE Filter(Tail(q), S)

\* Ascending sequence of a finite set of integers
RECURSIVE SortedSeq(_)
SortedSeq(S) ==
    IF S = {} THEN <<>>
    ELSE LET m == CHOOSE x \in S : \A y \in S : x <= y
         IN <<m>> \o SortedSeq(S \ {m})

RECURSIVE Reverse(_)
Reverse(q) == IF q = <<>> THEN <<>> ELSE Reverse(Tail(q)) \o <<Head(q)>>

Prefix(q, k) == SubSeq(q, 1, k)
Suffix(q, k) == SubSeq(q, k + 1, Len(q))

----------------------------------------------------------------------------
(* Connections as the connection manager hands them to its subscribers:    *)
(* paxos.Connection with Host(), RMId(), RootId(); inst tells two          *)
(* connection objects to the same peer apart.                              *)

Conn(host, rmId, root, inst) ==
    [host |-> host, rmId |-> rmId, root |-> root, inst |-> inst]

\* _, found := conns[rmId]
Connected(conns, rmId) == \E c \in conns : c.rmId = rmId
HostKnown(h2c, host) == \E c \in h2c : c.host = host
ConnOfHost(h2c, host) == CHOOSE c \in h2c : c.host = host

----------------------------------------------------------------------------
(* The actor state of one TopologyTransmogrifier.                          *)
(*   task     Nil or the topologyTask record; its id is the Go pointer     *)
(*   oldTask  the actor loop's local variable, 0 for nil                   *)
(*   err      "" for nil                                                   *)
(*   installQ the installed closures of the SetTopology calls that the    *)
(*            connection manager has not answered yet                      *)
(*   exes     pending topologyTransmogrifierMsgExe closures                *)
(*   scans    the dbIterators of the emigrators of this RM that have yet   *)
(*            to come to their ConnectedRMs                                *)

Task(id, kind, config) ==
    [id |-> id, kind |-> kind, config |-> config, sender |-> FALSE,
     installing |-> FALSE, currentState |-> "nil",
     varBarrierReached |-> Nil, emigrator |-> 0]

UsedIds(s) ==
    (IF s.task = Nil THEN {} ELSE {s.task[1].id})
        \cup {s.oldTask}
        \cup {e.task : e \in s.exes}
        \cup {e.id : e \in s.emigrators}

\* A fresh object: the least identity that nothing refers to any more
FreshId(s) == CHOOSE i \in 1..(Cardinality(UsedIds(s)) + 1) :
                 /\ i \notin UsedIds(s)
                 /\ \A j \in 1..(i - 1) : j \in UsedIds(s)

GoalVersion(goal) == goal.cfg.version
GoalClusterId(goal) == goal.cfg.clusterId

\* targetConfig.ensureRemoveTaskSender
EnsureRemoveTaskSender(s) ==
    IF s.task # Nil /\ s.task[1].sender
    THEN [s EXCEPT !.senders = @ \ {s.task[1].config},
                   !.task = Some([s.task[1] EXCEPT !.sender = FALSE])]
    ELSE s

\* targetConfig.shareGoalWithAll
ShareGoalWithAll(s) ==
    IF s.task[1].sender THEN s
    ELSE [s EXCEPT !.senders = @ \cup {s.task[1].config},
                   !.task = Some([s.task[1] EXCEPT !.sender = TRUE])]

\* migrateAwaitVarBarrier.ensureStopEmigrator that forgets the emigrator
\* without stopping it
EnsureStopEmigratorForgotten(s) ==
    IF s.task # Nil /\ s.task[1].emigrator # 0
    THEN [s EXCEPT !.task = Some([s.task[1] EXCEPT !.emigrator = 0])]
    ELSE s

\* migrateAwaitVarBarrier.ensureStopEmigrator with emigrator.stopAsync: the
\* stop flag is set and the connection manager is asked to take the sender
\* away. The emigrator is there for as long as a dbIterator holds it.
EnsureStopEmigrator(s) ==
    IF s.task # Nil /\ s.task[1].emigrator # 0
    THEN [s EXCEPT
            !.emigrators =
               {[e EXCEPT !.stop = @ \/ e.id = s.task[1].emigrator] :
                  e \in {d \in @ : \/ d.id # s.task[1].emigrator
                                   \/ \E sc \in s.scans : sc.emigrator = d.id}},
            !.task = Some([s.task[1] EXCEPT !.emigrator = 0])]
    ELSE s

\* targetConfig.abandon, overridden by migrate.abandon
TaskAbandon(s) ==
    EnsureRemoveTaskSender(
        IF s.task[1].kind = "migrate" THEN EnsureStopEmigrator(s) ELSE s)

\* targetConfig.completed without ensureRemoveTaskSender
TaskCompletedSenderKept(s) ==
    [(IF s.task[1].kind = "migrate" THEN EnsureStopEmigrator(s) ELSE s)
     EXCEPT !.task = Nil]

\* targetConfig.completed, overridden by migrate.completed
TaskCompleted(s) ==
    [EnsureRemoveTaskSender(
        IF s.task[1].kind = "migrate" THEN EnsureStopEmigrator(s) ELSE s)
     EXCEPT !.task = Nil]

\* targetConfig.fatal
TaskFatal(s, e) == [EnsureRemoveTaskSender(s) EXCEPT !.task = Nil, !.err = e]

\* targetConfig.error: the error is logged, nil is returned
TaskError(s) == [EnsureRemoveTaskSender(s) EXCEPT !.task = Nil]

\* tt.task = &targetConfig{TopologyTransmogrifier: tt, config: goal}
NewTargetConfig(s, goal) ==
    [s EXCEPT !.task = Some(Task(FreshId(s), "targetConfig", goal))]

\* selectGoal without the case "already in progress" for a goal of the
\* version of the task's goal
SelectGoalNoEqual(s, goal) ==
    IF s.active # Nil /\ (\/ GoalVersion(goal) = 0
                          \/ GoalClusterId(goal) # s.active[1].cfg.clusterId
                          \/ GoalVersion(goal) < s.active[1].cfg.version
                          \/ GoalVersion(goal) = s.active[1].cfg.version)
    THEN s
    ELSE IF s.task # Nil /\
            (\/ GoalClusterId(goal) # GoalClusterId(s.task[1].config)
             \/ GoalVersion(goal) < GoalVersion(s.task[1].config))
    THEN s
    ELSE NewTargetConfig(IF s.task # Nil
                         THEN [TaskAbandon(s) EXCEPT !.task = Nil] ELSE s, goal)

\* TopologyTransmogrifier.selectGoal
SelectGoal(s, goal) ==
    IF s.active # Nil /\ (\/ GoalVersion(goal) = 0
                          \/ GoalClusterId(goal) # s.active[1].cfg.clusterId
                          \/ GoalVersion(goal) < s.active[1].cfg.version
                          \/ GoalVersion(goal) = s.active[1].cfg.version)
    THEN s
    ELSE IF s.task # Nil /\
            (\/ GoalClusterId(goal) # GoalClusterId(s.task[1].config)
             \/ GoalVersion(goal) < GoalVersion(s.task[1].config)
             \/ GoalVersion(goal) = GoalVersion(s.task[1].config))
    THEN s
    ELSE NewTargetConfig(IF s.task # Nil
                         THEN [TaskAbandon(s) EXCEPT !.task = Nil] ELSE s, goal)

\* TopologyTransmogrifier.installTopology: hands the topology to the
\* connection manager; the installed callback arrives later as an Exe. The
\* closure holds on to the topology only if topology.Next() != nil.
InstallTopology(s, topology) ==
    [s EXCEPT !.installQ = Append(@, IF topology.next # Nil THEN Some(topology)
                                     ELSE Nil)]

\* if !task.installing { task.installing = true; task.installTopology(task.active) }
InstallOnce(s) ==
    IF s.task[1].installing THEN s
    ELSE InstallTopology([s EXCEPT !.task = Some([s.task[1] EXCEPT !.installing = TRUE])],
                         s.active[1])

\* targetConfig.createTopologyTransaction (the fields the model uses)
CreateTopologyTransaction(read, write, active, passive) ==
    [kind |-> IF write = Nil /\ read = Nil THEN "discovery"
              ELSE IF read = Nil THEN "creation" ELSE "modification",
     read |-> read, write |-> write, active |-> active, passive |-> passive,
     fInc |-> Len(active),
     topologyVersion |->
        IF read = Nil THEN 0
        ELSE IF read[1].next # Nil THEN read[1].next[1].cfg.version
        ELSE read[1].cfg.version]

\* What a transaction on the topology variable can come back with
Outcomes == {"commit", "resubmit", "badRead", "badRerun", "shutdown"}

\* tt.enqueueQuery(topologyTransmogrifierMsgExe(f)): the closures wait in a
\* bag; k tells equal closures apart
AddExe(s, kind, id, cfg) ==
    [s EXCEPT !.exes = @ \cup
       {[kind |-> kind, task |-> id, cfg |-> cfg,
         k |-> CHOOSE i \in 1..(Cardinality(s.exes) + 1) :
                 /\ [kind |-> kind, task |-> id, cfg |-> cfg, k |-> i] \notin s.exes
                 /\ \A j \in 1..(i - 1) :
                       [kind |-> kind, task |-> id, cfg |-> cfg, k |-> j] \in s.exes]}]

\* TopologyTransmogrifier.enqueueTick: after a random sleep an Exe that
\* ticks the task if it is still the current one
EnqueueTick(s, id) == AddExe(s, "tick", id, Nil)

\* localConnection.RunTransaction as the actor sees it: the transaction it
\* submitted and the outcome it was given
RunTransaction(s, txn, outcome) ==
    [s EXCEPT !.lastTxn = Some(txn), !.lastOutcome = outcome]

\* targetConfig.rewriteTopology: [s, resubmit, err]; ch.outcome is the
\* outcome of RunTransaction. The topology it returns is used by no caller.
RewriteTopology(s, read, write, active, passive, ch) ==
    [s |-> RunTransaction(s, CreateTopologyTransaction(
                                Some(read), Some(write), active, passive),
                          ch.outcome),
     resubmit |-> ch.outcome = "resubmit",
     err |-> IF ch.outcome = "badRerun"
             THEN "Internal error: readwrite of topology" ELSE ""]

\* What every caller of rewriteTopology does with its result: fatal on an
\* error, enqueueTick on a resubmit, else wait for the observer
Rewritten(r) ==
    IF r.err # "" THEN TaskFatal(r.s, r.err)
    ELSE IF r.resubmit THEN EnqueueTick(r.s, r.s.task[1].id)
    ELSE r.s

\* Configuration.LocalRemoteHosts fails when the local host is not listed
HasLocalHost(s, cfg) == s.host \in SeqToSet(cfg.hosts)

\* targetConfig.firstLocalHost: "ok", or "panic" when no configuration in
\* the chain lists the local host and the chain ends in a nil Next()
FirstLocalHost(s, topology) ==
    IF HasLocalHost(s, topology.cfg) THEN "ok"
    ELSE IF topology.next = Nil THEN "panic"
    ELSE IF HasLocalHost(s, topology.next[1].cfg) THEN "ok"
    ELSE "panic"

\* targetConfig.allHostsBarLocalHost
AllHostsBarLocalHost(s, next) ==
    IF s.host \notin SeqToSet(next.allHosts) THEN next.allHosts
    ELSE Prefix(next.allHosts,
                (CHOOSE i \in 1..Len(next.allHosts) :
                    /\ next.allHosts[i] = s.host
                    /\ \A j \in 1..(i - 1) : next.allHosts[j] # s.host) - 1)
         \o Suffix(next.allHosts,
                   CHOOSE i \in 1..Len(next.allHosts) :
                    /\ next.allHosts[i] = s.host
                    /\ \A j \in 1..(i - 1) : next.allHosts[j] # s.host)

\* targetConfig.verifyRoots: "ok", "notFound" (false, nil) or "mismatch"
RECURSIVE VerifyRoots(_, _, _)
VerifyRoots(s, rootId, remoteHosts) ==
    IF remoteHosts = <<>> THEN "ok"
    ELSE IF ~HostKnown(s.hostToConnection, Head(remoteHosts)) THEN "notFound"
    ELSE IF ConnOfHost(s.hostToConnection, Head(remoteHosts)).root \in {Nil, rootId}
    THEN VerifyRoots(s, rootId, Tail(remoteHosts))
    ELSE "mismatch"

\* targetConfig.partitionByActiveConnection over one list
PartitionActive(s, rmIds) ==
    Filter(rmIds, {r \in SeqToSet(rmIds) :
                     r # RMIdEmpty /\ Connected(s.activeConnections, r)})
PartitionPassive(s, rmIds) ==
    Filter(rmIds, {r \in SeqToSet(rmIds) :
                     r # RMIdEmpty /\ ~Connected(s.activeConnections, r)})

\* configuration.BlankTopology
BlankTopology(cid) == Topology(Conf(cid, 0, <<>>, 0, <<>>, {}), Nil, 0, Nil)

RECURSIVE SetActive(_, _, _)
RECURSIVE Tick(_, _)
RECURSIVE MigrateInnerTick(_, _)

\* targetConfig.createTopologyZero followed by the caller's fatal on an
\* error; s is the actor after RunTransaction
CreateTopologyZero(s, zero) ==
    IF s.lastOutcome = "commit" THEN [s EXCEPT !.localDb = Some(zero)]
    ELSE IF s.lastOutcome = "shutdown" THEN s
    ELSE TaskFatal(s, "unable to write initial topology")

\* ensureLocalTopology.tick that does not wait for the connection to itself
EnsureLocalTopologyTickUnconnected(s, ch) ==
    IF s.active # Nil THEN SelectGoal(TaskCompleted(s), s.task[1].config)
    ELSE IF ch.dbErr THEN TaskFatal(s, "local database")
    ELSE IF s.localDb = Nil /\ GoalClusterId(s.task[1].config) = ""
    THEN TaskFatal(s, "No configuration supplied")
    ELSE IF s.localDb = Nil
    THEN CreateTopologyZero(
            RunTransaction(s, CreateTopologyTransaction(Nil,
                    Some([BlankTopology(GoalClusterId(s.task[1].config))
                            EXCEPT !.next = Some(s.task[1].config)]),
                    <<s.rmId>>, <<>>), ch.outcome),
            [BlankTopology(GoalClusterId(s.task[1].config))
               EXCEPT !.next = Some(s.task[1].config)])
    ELSE SetActive(s, s.localDb[1], ch)

\* ensureLocalTopology.tick with getTopologyFromLocalDatabase
EnsureLocalTopologyTick(s, ch) ==
    IF s.active # Nil THEN SelectGoal(TaskCompleted(s), s.task[1].config)
    ELSE IF ~Connected(s.activeConnections, s.rmId) THEN s
    ELSE IF ch.dbErr THEN TaskFatal(s, "local database")
    ELSE IF s.localDb = Nil /\ GoalClusterId(s.task[1].config) = ""
    THEN TaskFatal(s, "No configuration supplied")
    ELSE IF s.localDb = Nil
    THEN CreateTopologyZero(
            RunTransaction(s, CreateTopologyTransaction(Nil,
                    Some([BlankTopology(GoalClusterId(s.task[1].config))
                            EXCEPT !.next = Some(s.task[1].config)]),
                    <<s.rmId>>, <<>>), ch.outcome),
            [BlankTopology(GoalClusterId(s.task[1].config))
               EXCEPT !.next = Some(s.task[1].config)])
    ELSE SetActive(s, s.localDb[1], ch)

\* activeWithNext of joinCluster.allJoining
ActiveWithNext(s, allRMIds) ==
    [s.active[1] EXCEPT
       !.next = Some(GoalOf([s.task[1].config.cfg EXCEPT !.rms = allRMIds]))]

\* The transaction of targetConfig.attemptCreateRoot
CreateRootTxn(s, allRMIds) ==
    [kind |-> "createRoot", read |-> Nil, write |-> Nil,
     active |-> Prefix(NonEmpty(allRMIds), s.task[1].config.cfg.f + 1),
     passive |-> SubSeq(NonEmpty(allRMIds), s.task[1].config.cfg.f + 2,
                        (2 * s.task[1].config.cfg.f) + 1),
     fInc |-> s.task[1].config.cfg.f + 1,
     topologyVersion |-> s.task[1].config.cfg.version]

\* joinCluster.allJoining after attemptCreateRoot has run its transaction
RootCreated(s, allRMIds, ch) ==
    IF s.lastOutcome = "shutdown" THEN s
    ELSE IF s.lastOutcome = "resubmit" THEN EnqueueTick(s, s.task[1].id)
    ELSE IF s.lastOutcome \in {"badRead", "badRerun"}
    THEN TaskFatal(s, "creation of root gave rerun outcome")
    ELSE Rewritten(RewriteTopology(
           InstallTopology(s, ActiveWithNext(s, allRMIds)),
           s.active[1],
           Topology([s.task[1].config.cfg EXCEPT !.rms = allRMIds], Nil,
                    s.active[1].dbVersion, Some(ch.rootId)),
           allRMIds, <<>>, ch))

\* targetConfig.attemptCreateRoot as joinCluster.allJoining calls it
AttemptCreateRoot(s, allRMIds, ch) ==
    IF \E r \in SeqToSet(NonEmpty(allRMIds)) : ~Connected(s.activeConnections, r)
    THEN s
    ELSE RootCreated(RunTransaction(s, CreateRootTxn(s, allRMIds), ch.rootOutcome),
                     allRMIds, ch)

\* joinCluster.allJoining
AllJoining(s, allRMIds, ch) ==
    AttemptCreateRoot(InstallTopology(s, ActiveWithNext(s, allRMIds)),
                      allRMIds, ch)

\* The distinct non-nil roots found among the connections to the hosts
RootsOf(s, hosts) ==
    {ConnOfHost(s.hostToConnection, h).root[1] :
        h \in {x \in SeqToSet(hosts) :
                 ConnOfHost(s.hostToConnection, x).root # Nil}}

\* The RMIds of the connections to the hosts, in the order of the hosts
RMIdsOf(s, hosts) ==
    [i \in 1..Len(hosts) |-> ConnOfHost(s.hostToConnection, hosts[i]).rmId]

\* joinCluster.tick that does not look at the roots of its peers
JoinClusterConnectUnverified(s, remote, ch) ==
    IF \E h \in SeqToSet(s.task[1].config.cfg.hosts) :
          ~HostKnown(s.hostToConnection, h)
    THEN s
    ELSE AllJoining(s, RMIdsOf(s, remote) \o <<s.rmId>>, ch)

\* joinCluster.tick that joins by itself whatever roots its peers report
JoinClusterConnectAlone(s, remote, ch) ==
    IF \E h \in SeqToSet(s.task[1].config.cfg.hosts) :
          ~HostKnown(s.hostToConnection, h)
    THEN s
    ELSE IF Cardinality(RootsOf(s, remote)) > 1
    THEN TaskFatal(s, "merge different logical clusters")
    ELSE AllJoining(s, RMIdsOf(s, remote) \o <<s.rmId>>, ch)

\* joinCluster.tick from the loop over task.config.Hosts on; remote is the
\* goal's hosts without the local one
JoinClusterConnect(s, remote, ch) ==
    IF \E h \in SeqToSet(s.task[1].config.cfg.hosts) :
          ~HostKnown(s.hostToConnection, h)
    THEN s
    ELSE IF Cardinality(RootsOf(s, remote)) > 1
    THEN TaskFatal(s, "merge different logical clusters")
    ELSE IF RootsOf(s, remote) = {}
    THEN AllJoining(s, RMIdsOf(s, remote) \o <<s.rmId>>, ch)
    ELSE s

\* joinCluster.tick
JoinClusterTick(s, ch) ==
    IF s.active[1].cfg.version # 0 THEN TaskCompleted(s)
    ELSE IF ~HasLocalHost(s, s.task[1].config.cfg)
    THEN TaskFatal(s, "local host not in target")
    ELSE JoinClusterConnect(
            ShareGoalWithAll(InstallTopology(s, s.active[1])),
            Filter(s.task[1].config.cfg.hosts,
                   SeqToSet(s.task[1].config.cfg.hosts) \ {s.host}), ch)

\* configuration.Generator; a Conjunction is a record of a left and a right one
Generator(rmId, permLen, start, len, adjust, includes) ==
    [rmId |-> rmId, permLen |-> permLen, start |-> start, len |-> len,
     lenAdjustIntersect |-> adjust, includes |-> includes]

\* The clauses that the loops of calculateMigrationConditions give to
\* Conds.DisjoinWith for the RM r
CondOf(r, added, lost, survived, from, to) ==
    (IF r \in SeqToSet(added)
     THEN <<Generator(r, NonEmptyLen(to.rms), 0, (to.f * 2) + 1, <<>>, TRUE)>>
     ELSE <<>>)
    \o (IF /\ r \in SeqToSet(survived)
           /\ lost # <<>>
           /\ (from.f * 2) + 1 < NonEmptyLen(from.rms)
           /\ Len(survived) > 1
        THEN <<Generator(r, NonEmptyLen(from.rms), (from.f * 2) + 1, 0, lost, TRUE)>>
        ELSE <<>>)
    \o (IF r \in SeqToSet(survived) /\ from.f < to.f
        THEN <<[left |-> Generator(r, NonEmptyLen(to.rms), 0,
                                   (to.f * 2) + 1, <<>>, TRUE),
                right |-> Generator(r, NonEmptyLen(from.rms), 0,
                                    (from.f * 2) + 1, <<>>, FALSE)]>>
        ELSE <<>>)

\* calculateMigrationConditions that gives a lone survivor its clause too
CalculateMigrationConditionsLoneSurvivor(added, lost, survived, from, to) ==
    [r \in {x \in SeqToSet(added) \cup SeqToSet(survived) :
               CondOf(x, added, lost, survived \o survived, from, to) # <<>>} |->
       [cond |-> CondOf(r, added, lost, survived \o survived, from, to),
        suppliers |-> {}]]

\* calculateMigrationConditions: the Conds map, no supplier credited yet
CalculateMigrationConditions(added, lost, survived, from, to) ==
    [r \in {x \in SeqToSet(added) \cup SeqToSet(survived) :
               CondOf(x, added, lost, survived, from, to) # <<>>} |->
       [cond |-> CondOf(r, added, lost, survived, from, to), suppliers |-> {}]]

\* The loop of calculateTargetTopology over the old RM list:
\* [new |-> rmIdsNew, lost |-> rmIdsLost]
RECURSIVE FillSlots(_, _, _, _, _)
FillSlots(rmIdsOld, survivedSet, addedCopy, new, lost) ==
    IF rmIdsOld = <<>> THEN [new |-> new \o addedCopy, lost |-> lost]
    ELSE IF Head(rmIdsOld) \in survivedSet
    THEN FillSlots(Tail(rmIdsOld), survivedSet, addedCopy,
                   Append(new, Head(rmIdsOld)), lost)
    ELSE IF addedCopy # <<>>
    THEN FillSlots(Tail(rmIdsOld), survivedSet, Tail(addedCopy),
                   Append(new, Head(addedCopy)), Append(lost, Head(rmIdsOld)))
    ELSE FillSlots(Tail(rmIdsOld), survivedSet, addedCopy,
                   Append(new, RMIdEmpty), Append(lost, Head(rmIdsOld)))

\* Go ranges over a map in an unspecified order
MapOrder(S, desc) == IF desc THEN Reverse(SortedSeq(S)) ELSE SortedSeq(S)

\* calculateTargetTopology from targetTopology := task.active.Clone() on
TargetNext(s, allRemoteHosts, rmIdsAdded, rmIdsSurvived, rmIdsLost, next) ==
    [s |-> s,
     target |-> Some([s.active[1] EXCEPT !.next = Some(
        NextConf(next, allRemoteHosts \o <<s.host>>, rmIdsAdded,
                 rmIdsSurvived, rmIdsLost, rmIdsAdded,
                 CalculateMigrationConditions(rmIdsAdded, rmIdsLost,
                        rmIdsSurvived, s.active[1].cfg, next)))])]

\* calculateTargetTopology: the construction of the new RMId list
TargetFilled(s, allRemoteHosts, rmIdsAdded, rmIdsSurvived, fill) ==
    TargetNext(s, allRemoteHosts, rmIdsAdded, rmIdsSurvived, fill.lost,
               [s.task[1].config.cfg EXCEPT
                  !.rms = fill.new,
                  !.rmsRemoved = s.active[1].cfg.rmsRemoved \cup SeqToSet(fill.lost)])

\* calculateTargetTopology steps 3 to 5: addedRMs and survivedRMs are the
\* RMIds of the connections to the added and to the surviving hosts
TargetRMIds(s, allRemoteHosts, addedRMs, survivedRMs) ==
    TargetFilled(s, allRemoteHosts,
        addedRMs \o Filter(survivedRMs, SeqToSet(survivedRMs)
                                          \ SeqToSet(NonEmpty(s.active[1].cfg.rms))),
        Filter(survivedRMs, SeqToSet(NonEmpty(s.active[1].cfg.rms))),
        FillSlots(NonEmpty(s.active[1].cfg.rms),
                  SeqToSet(survivedRMs) \cap SeqToSet(NonEmpty(s.active[1].cfg.rms)),
                  addedRMs \o Filter(survivedRMs, SeqToSet(survivedRMs)
                                          \ SeqToSet(NonEmpty(s.active[1].cfg.rms))),
                  <<>>, <<>>))

\* calculateTargetTopology from verifyRoots on
TargetVerified(s, allRemoteHosts, ch) ==
    IF VerifyRoots(s, s.active[1].root, allRemoteHosts) = "mismatch"
    THEN [s |-> TaskError(s), target |-> Nil]
    ELSE IF VerifyRoots(s, s.active[1].root, allRemoteHosts) = "notFound"
    THEN [s |-> s, target |-> Nil]
    ELSE IF \E h \in SeqToSet(s.task[1].config.cfg.hosts) :
               ~HostKnown(s.hostToConnection, h)
    THEN [s |-> TaskFatal(s, "panic"), target |-> Nil]
    ELSE TargetRMIds(s, allRemoteHosts,
            RMIdsOf(s, MapOrder(SeqToSet(s.task[1].config.cfg.hosts)
                                  \ SeqToSet(s.active[1].cfg.hosts), ch.addedDesc)),
            RMIdsOf(s, MapOrder(SeqToSet(s.task[1].config.cfg.hosts)
                                  \cap SeqToSet(s.active[1].cfg.hosts), ch.survivedDesc)))

\* installTargetOld.calculateTargetTopology:
\* [s, target] where target = Nil stands for the returns without a target
CalculateTargetTopology(s, ch) ==
    IF FirstLocalHost(s, s.active[1]) # "ok"
    THEN [s |-> TaskFatal(s, "panic"), target |-> Nil]
    ELSE TargetVerified(InstallOnce(s),
            Filter(s.active[1].cfg.hosts, SeqToSet(s.active[1].cfg.hosts) \ {s.host})
              \o Filter(s.task[1].config.cfg.hosts,
                        (SeqToSet(s.task[1].config.cfg.hosts)
                           \ SeqToSet(s.active[1].cfg.hosts)) \ {s.host}),
            ch)

\* installTargetOld.tick after calculateTargetTopology, with the RMs it is
\* not connected to left out of the transaction
InstallTargetOldWriteConnected(c, ch) ==
    IF c.target = Nil THEN c.s
    ELSE IF Len(PartitionActive(c.s, c.s.active[1].cfg.rms))
              <= Len(PartitionPassive(c.s, c.s.active[1].cfg.rms))
    THEN ShareGoalWithAll(c.s)
    ELSE Rewritten(RewriteTopology(ShareGoalWithAll(c.s), c.s.active[1], c.target[1],
            Prefix(PartitionActive(c.s, c.s.active[1].cfg.rms),
                   (NonEmptyLen(c.s.active[1].cfg.rms) \div 2) + 1),
            Suffix(PartitionActive(c.s, c.s.active[1].cfg.rms),
                   (NonEmptyLen(c.s.active[1].cfg.rms) \div 2) + 1),
            ch))

\* installTargetOld.tick once calculateTargetTopology has returned c
InstallTargetOldWrite(c, ch) ==
    IF c.target = Nil THEN c.s
    ELSE IF Len(PartitionActive(c.s, c.s.active[1].cfg.rms))
              <= Len(PartitionPassive(c.s, c.s.active[1].cfg.rms))
    THEN ShareGoalWithAll(c.s)
    ELSE Rewritten(RewriteTopology(ShareGoalWithAll(c.s), c.s.active[1], c.target[1],
            Prefix(PartitionActive(c.s, c.s.active[1].cfg.rms),
                   (NonEmptyLen(c.s.active[1].cfg.rms) \div 2) + 1),
            Suffix(PartitionActive(c.s, c.s.active[1].cfg.rms),
                   (NonEmptyLen(c.s.active[1].cfg.rms) \div 2) + 1)
              \o PartitionPassive(c.s, c.s.active[1].cfg.rms),
            ch))

\* installTargetOld.tick without the test that completes the task when a
\* next of the goal's version or above is in the topology already
InstallTargetOldTickAlways(s, ch) ==
    InstallTargetOldWrite(CalculateTargetTopology(s, ch), ch)

\* installTargetOld.tick
InstallTargetOldTick(s, ch) ==
    IF ~(\/ s.active[1].next = Nil
         \/ s.active[1].next[1].cfg.version < GoalVersion(s.task[1].config))
    THEN TaskCompleted(s)
    ELSE InstallTargetOldWrite(CalculateTargetTopology(s, ch), ch)

Min(a, b) == IF a < b THEN a ELSE b

\* installTargetNew.tick that goes ahead when it can extend to no newcomer
InstallTargetNewExtendIdle(s, act, pas0, pas1, maxPassive, ch) ==
    IF (maxPassive - Len(pas0)) < 0 THEN s
    ELSE Rewritten(RewriteTopology(
           InstallTopology(s,
              [s.active[1] EXCEPT !.next = Some([s.active[1].next[1] EXCEPT
                  !.pendingInstall = Suffix(pas1, Min(maxPassive, Len(pas1)))])]),
           s.active[1],
           [s.active[1] EXCEPT !.next = Some([s.active[1].next[1] EXCEPT
               !.pendingInstall = Suffix(pas1, Min(maxPassive, Len(pas1)))])],
           act,
           s.active[1].next[1].lostRMIds \o Prefix(pas1, Min(maxPassive, Len(pas1))),
           ch))

\* installTargetNew.tick from the "no progress possible" test on: pas0 is
\* the passive partition, pas1 the same with next.PendingInstall appended
InstallTargetNewExtend(s, act, pas0, pas1, maxPassive, ch) ==
    IF (maxPassive - Len(pas0)) <= 0 THEN s
    ELSE Rewritten(RewriteTopology(
           InstallTopology(s,
              [s.active[1] EXCEPT !.next = Some([s.active[1].next[1] EXCEPT
                  !.pendingInstall = Suffix(pas1, Min(maxPassive, Len(pas1)))])]),
           s.active[1],
           [s.active[1] EXCEPT !.next = Some([s.active[1].next[1] EXCEPT
               !.pendingInstall = Suffix(pas1, Min(maxPassive, Len(pas1)))])],
           act,
           s.active[1].next[1].lostRMIds \o Prefix(pas1, Min(maxPassive, Len(pas1))),
           ch))

\* Candidates are survivors + new progress
Candidates(next) ==
    next.survivingRMIds
      \o Prefix(next.newRMIds, Len(next.newRMIds) - Len(next.pendingInstall))

\* installTargetNew.tick from verifyRoots on
InstallTargetNewVerified(s, ch) ==
    IF VerifyRoots(s, s.active[1].root,
                   AllHostsBarLocalHost(s, s.active[1].next[1])) = "mismatch"
    THEN TaskError(s)
    ELSE IF VerifyRoots(s, s.active[1].root,
                        AllHostsBarLocalHost(s, s.active[1].next[1])) = "notFound"
    THEN s
    ELSE InstallTargetNewExtend(s,
            PartitionActive(s, Candidates(s.active[1].next[1])),
            PartitionPassive(s, Candidates(s.active[1].next[1])),
            PartitionPassive(s, Candidates(s.active[1].next[1]))
               \o s.active[1].next[1].pendingInstall,
            (Len(PartitionActive(s, Candidates(s.active[1].next[1]))) - 1)
               + (IF NonEmptyLen(s.active[1].cfg.rms) = 1 THEN 1 ELSE 0),
            ch)

\* installTargetNew.tick
InstallTargetNewTick(s, ch) ==
    IF ~(/\ s.active[1].next # Nil
         /\ s.active[1].next[1].cfg.version = GoalVersion(s.task[1].config)
         /\ Len(s.active[1].next[1].pendingInstall) > 0)
    THEN TaskCompleted(s)
    ELSE IF FirstLocalHost(s, s.active[1]) # "ok" THEN TaskFatal(s, "panic")
    ELSE InstallTargetNewVerified(ShareGoalWithAll(InstallOnce(s)), ch)

\* Conds.SuppliedBy(requester, supplier, maxSuppliers) on a pending map:
\* [pending, changed]
SuppliedBy(pending, requester, supplier, maxSuppliers) ==
    IF requester \notin DOMAIN pending \/ supplier \in pending[requester].suppliers
    THEN [pending |-> pending, changed |-> FALSE]
    ELSE [pending |->
            IF Cardinality(pending[requester].suppliers \cup {supplier}) = maxSuppliers
            THEN [r \in (DOMAIN pending) \ {requester} |-> pending[r]]
            ELSE [pending EXCEPT ![requester].suppliers = @ \cup {supplier}],
          changed |-> TRUE]

\* The loop of migrateAwaitImmigrations.tick over the senders whose
\* counter is zero: sup is [pending, changed] so far
RECURSIVE SuppliedByAll(_, _, _, _)
SuppliedByAll(sup, requester, senders, maxSuppliers) ==
    IF senders = <<>> THEN sup
    ELSE SuppliedByAll(
           [pending |-> SuppliedBy(sup.pending, requester, Head(senders),
                                   maxSuppliers).pending,
            changed |-> sup.changed \/ SuppliedBy(sup.pending, requester,
                                   Head(senders), maxSuppliers).changed],
           requester, Tail(senders), maxSuppliers)

\* The senders of a target version, whatever their ledger counter
ZeroSendersAnyCount(s, version) ==
    {p[2] : p \in {q \in DOMAIN s.migrations : q[1] = version}}

\* The senders of a target version whose ledger counter is zero
ZeroSenders(s, version) ==
    {p[2] : p \in {q \in DOMAIN s.migrations : q[1] = version /\ s.migrations[q] = 0}}

\* The successor that migrate.nextState assigns to currentState
NextStateOf(st) ==
    CASE st = "migrateInstall" -> "migrateAwaitClientDrain"
      [] st = "migrateAwaitClientDrain" -> "migrateAwaitVarBarrier"
      [] st = "migrateAwaitVarBarrier" -> "migrateAwaitImmigrations"
      [] st = "migrateAwaitImmigrations" -> "migrateAwaitNoPending"
      [] OTHER -> "nil"

SetCurrentState(s, st) == [s EXCEPT !.task = Some([s.task[1] EXCEPT !.currentState = st])]

\* migrate.nextState
NextState(s, ch) ==
    IF NextStateOf(s.task[1].currentState) = "nil" THEN SetCurrentState(s, "nil")
    ELSE MigrateInnerTick(SetCurrentState(s, NextStateOf(s.task[1].currentState)), ch)

\* migrateAwaitImmigrations.tick once the loop over the senders has given
\* sup
ImmigrationsSupplied(s, sup, ch) ==
    IF ~sup.changed THEN s
    ELSE IF FirstLocalHost(s, s.active[1]) # "ok" THEN TaskFatal(s, "panic")
    ELSE IF VerifyRoots(s, s.active[1].root,
                        AllHostsBarLocalHost(s, s.active[1].next[1])) = "mismatch"
    THEN TaskError(s)
    ELSE IF VerifyRoots(s, s.active[1].root,
                        AllHostsBarLocalHost(s, s.active[1].next[1])) = "notFound"
    THEN s
    ELSE IF Len(PartitionActive(s, s.active[1].next[1].cfg.rms))
              <= Len(PartitionPassive(s, s.active[1].next[1].cfg.rms))
    THEN s
    ELSE Rewritten(RewriteTopology(s, s.active[1],
            [s.active[1] EXCEPT !.next = Some([s.active[1].next[1] EXCEPT
                                                 !.pending = sup.pending])],
            PartitionActive(s, s.active[1].next[1].cfg.rms),
            PartitionPassive(s, s.active[1].next[1].cfg.rms)
               \o s.active[1].next[1].lostRMIds,
            ch))

\* The migrateAwaitImmigrations.tick of the copy of this file that is kept in
\* src/network/connectionmanager.go, once the loop over the senders has
\* given sup: the quorum is counted over the old and the new RMs, and on a
\* resubmit enqueueTick is given the inner state, which is never tt.task
\* (0 is the id of no task)
ImmigrationsSuppliedInner(s, sup, ch) ==
    IF ~sup.changed THEN s
    ELSE IF FirstLocalHost(s, s.active[1]) # "ok" THEN TaskFatal(s, "panic")
    ELSE IF VerifyRoots(s, s.active[1].root,
                        AllHostsBarLocalHost(s, s.active[1].next[1])) = "mismatch"
    THEN TaskError(s)
    ELSE IF VerifyRoots(s, s.active[1].root,
                        AllHostsBarLocalHost(s, s.active[1].next[1])) = "notFound"
    THEN s
    ELSE LET all == NonEmpty(s.active[1].cfg.rms) \o s.active[1].next[1].newRMIds
             r == RewriteTopology(s, s.active[1],
                     [s.active[1] EXCEPT !.next = Some([s.active[1].next[1] EXCEPT
                                                          !.pending = sup.pending])],
                     PartitionActive(s, all), PartitionPassive(s, all), ch)
         IN IF Len(PartitionActive(s, all)) <= (Len(all) \div 2) THEN s
            ELSE IF r.err # "" THEN TaskFatal(r.s, r.err)
            ELSE IF r.resubmit THEN EnqueueTick(r.s, 0)
            ELSE r.s

\* migrateAwaitImmigrations.tick of that copy
MigrateAwaitImmigrationsTickInner(s, ch) ==
    IF s.rmId \notin DOMAIN s.active[1].next[1].pending THEN NextState(s, ch)
    ELSE IF ~\E q \in DOMAIN s.migrations : q[1] = s.active[1].next[1].cfg.version
    THEN s
    ELSE ImmigrationsSuppliedInner(s,
            SuppliedByAll([pending |-> s.active[1].next[1].pending, changed |-> FALSE],
               s.rmId,
               MapOrder(ZeroSenders(s, s.active[1].next[1].cfg.version),
                        ch.survivedDesc),
               (NonEmptyLen(s.active[1].cfg.rms) - s.active[1].cfg.f)
                  - (IF HasLocalHost(s, s.active[1].cfg) THEN 1 ELSE 0)),
            ch)

\* migrateAwaitImmigrations.tick that waits for no sender
MigrateAwaitImmigrationsTickUnsupplied(s, ch) ==
    IF s.rmId \notin DOMAIN s.active[1].next[1].pending THEN NextState(s, ch)
    ELSE ImmigrationsSupplied(s,
            [pending |-> [r \in (DOMAIN s.active[1].next[1].pending) \ {s.rmId} |->
                            s.active[1].next[1].pending[r]],
             changed |-> TRUE],
            ch)

\* migrateAwaitImmigrations.tick
MigrateAwaitImmigrationsTick(s, ch) ==
    IF s.rmId \notin DOMAIN s.active[1].next[1].pending THEN NextState(s, ch)
    ELSE IF ~\E q \in DOMAIN s.migrations : q[1] = s.active[1].next[1].cfg.version
    THEN s
    ELSE ImmigrationsSupplied(s,
            SuppliedByAll([pending |-> s.active[1].next[1].pending, changed |-> FALSE],
               s.rmId,
               MapOrder(ZeroSenders(s, s.active[1].next[1].cfg.version),
                        ch.survivedDesc),
               (NonEmptyLen(s.active[1].cfg.rms) - s.active[1].cfg.f)
                  - (IF HasLocalHost(s, s.active[1].cfg) THEN 1 ELSE 0)),
            ch)

\* newEmigrator under migrateAwaitVarBarrier.ensureEmigrator: the emigrator
\* keeps task.active and registers itself as a sender
EnsureEmigrator(s) ==
    IF s.task[1].emigrator # 0 THEN s
    ELSE [s EXCEPT
            !.emigrators = @ \cup
               {[id |-> FreshId(s), stop |-> FALSE,
                 version |-> s.active[1].next[1].cfg.version,
                 targets |-> (DOMAIN s.active[1].next[1].pending) \ {s.rmId},
                 added |-> FALSE]},
            !.task = Some([s.task[1] EXCEPT !.emigrator = FreshId(s)])]

\* The tick of the inner state with a migrateAwaitVarBarrier that does not
\* wait for the barrier
MigrateInnerTickUnbarred(s, ch) ==
    CASE s.task[1].currentState = "migrateInstall" ->
           IF FirstLocalHost(s, s.active[1]) # "ok" THEN TaskFatal(s, "panic")
           ELSE NextState(ShareGoalWithAll(InstallTopology(s, s.active[1])), ch)
      [] s.task[1].currentState = "migrateAwaitClientDrain" ->
           IF /\ s.installedOnProposers # Nil
              /\ s.installedOnProposers[1].next # Nil
              /\ s.installedOnProposers[1].next[1].cfg = s.active[1].next[1].cfg
           THEN NextState(AddExe(s, "barrier", s.task[1].id,
                                 Some(s.active[1].next[1].cfg)), ch)
           ELSE s
      [] s.task[1].currentState = "migrateAwaitVarBarrier" ->
           NextState(IF HasLocalHost(s, s.active[1].cfg)
                     THEN EnsureEmigrator(s) ELSE s, ch)
      [] s.task[1].currentState = "migrateAwaitImmigrations" ->
           IF s.innerRetry THEN MigrateAwaitImmigrationsTickInner(s, ch)
           ELSE MigrateAwaitImmigrationsTick(s, ch)
      [] OTHER -> s

\* migrate.currentState.tick(): the tick of the inner state
MigrateInnerTick(s, ch) ==
    CASE s.task[1].currentState = "migrateInstall" ->
           IF FirstLocalHost(s, s.active[1]) # "ok" THEN TaskFatal(s, "panic")
           ELSE NextState(ShareGoalWithAll(InstallTopology(s, s.active[1])), ch)
      [] s.task[1].currentState = "migrateAwaitClientDrain" ->
           IF /\ s.installedOnProposers # Nil
              /\ s.installedOnProposers[1].next # Nil
              /\ s.installedOnProposers[1].next[1].cfg = s.active[1].next[1].cfg
           THEN NextState(AddExe(s, "barrier", s.task[1].id,
                                 Some(s.active[1].next[1].cfg)), ch)
           ELSE s
      [] s.task[1].currentState = "migrateAwaitVarBarrier" ->
           IF /\ s.task[1].varBarrierReached # Nil
              /\ s.task[1].varBarrierReached[1] = s.active[1].next[1].cfg
           THEN NextState(IF HasLocalHost(s, s.active[1].cfg)
                          THEN EnsureEmigrator(s) ELSE s, ch)
           ELSE s
      [] s.task[1].currentState = "migrateAwaitImmigrations" ->
           IF s.innerRetry THEN MigrateAwaitImmigrationsTickInner(s, ch)
           ELSE MigrateAwaitImmigrationsTick(s, ch)
      [] OTHER -> s

\* migrate.tick
MigrateTick(s, ch) ==
    IF ~(/\ s.active[1].next # Nil
         /\ s.active[1].next[1].cfg.version = GoalVersion(s.task[1].config)
         /\ Len(s.active[1].next[1].pendingInstall) = 0
         /\ DOMAIN s.active[1].next[1].pending # {})
    THEN TaskCompleted(s)
    ELSE MigrateInnerTick(
            IF s.task[1].currentState = "nil"
            THEN SetCurrentState(s, "migrateInstall") ELSE s, ch)

\* installCompletion.tick from verifyRoots on, with the lost RMs left out of
\* the transaction
InstallCompletionVerifiedLostLeft(s, ch) ==
    IF VerifyRoots(s, s.active[1].root,
                   AllHostsBarLocalHost(s, s.active[1].next[1])) = "mismatch"
    THEN TaskError(s)
    ELSE IF VerifyRoots(s, s.active[1].root,
                        AllHostsBarLocalHost(s, s.active[1].next[1])) = "notFound"
    THEN s
    ELSE IF Len(PartitionActive(s, s.active[1].next[1].cfg.rms))
              <= Len(PartitionPassive(s, s.active[1].next[1].cfg.rms))
    THEN s
    ELSE Rewritten(RewriteTopology(s, s.active[1],
            [s.active[1] EXCEPT !.cfg = s.active[1].next[1].cfg, !.next = Nil],
            PartitionActive(s, s.active[1].next[1].cfg.rms),
            PartitionPassive(s, s.active[1].next[1].cfg.rms),
            ch))

\* installCompletion.tick from verifyRoots on, writing the clone of active
\* as it is
InstallCompletionVerifiedClone(s, ch) ==
    IF VerifyRoots(s, s.active[1].root,
                   AllHostsBarLocalHost(s, s.active[1].next[1])) = "mismatch"
    THEN TaskError(s)
    ELSE IF VerifyRoots(s, s.active[1].root,
                        AllHostsBarLocalHost(s, s.active[1].next[1])) = "notFound"
    THEN s
    ELSE IF Len(PartitionActive(s, s.active[1].next[1].cfg.rms))
              <= Len(PartitionPassive(s, s.active[1].next[1].cfg.rms))
    THEN s
    ELSE Rewritten(RewriteTopology(s, s.active[1],
            s.active[1],
            PartitionActive(s, s.active[1].next[1].cfg.rms),
            PartitionPassive(s, s.active[1].next[1].cfg.rms)
               \o s.active[1].next[1].lostRMIds,
            ch))

\* installCompletion.tick from verifyRoots on
InstallCompletionVerified(s, ch) ==
    IF VerifyRoots(s, s.active[1].root,
                   AllHostsBarLocalHost(s, s.active[1].next[1])) = "mismatch"
    THEN TaskError(s)
    ELSE IF VerifyRoots(s, s.active[1].root,
                        AllHostsBarLocalHost(s, s.active[1].next[1])) = "notFound"
    THEN s
    ELSE IF Len(PartitionActive(s, s.active[1].next[1].cfg.rms))
              <= Len(PartitionPassive(s, s.active[1].next[1].cfg.rms))
    THEN s
    ELSE Rewritten(RewriteTopology(s, s.active[1],
            [s.active[1] EXCEPT !.cfg = s.active[1].next[1].cfg, !.next = Nil],
            PartitionActive(s, s.active[1].next[1].cfg.rms),
            PartitionPassive(s, s.active[1].next[1].cfg.rms)
               \o s.active[1].next[1].lostRMIds,
            ch))

\* installCompletion.tick
InstallCompletionTick(s, ch) ==
    IF ~(/\ s.active[1].next # Nil
         /\ s.active[1].next[1].cfg.version = GoalVersion(s.task[1].config)
         /\ Len(s.active[1].next[1].pendingInstall) = 0
         /\ DOMAIN s.active[1].next[1].pending = {})
    THEN TaskCompleted(s)
    ELSE IF FirstLocalHost(s, s.active[1]) # "ok" THEN TaskFatal(s, "panic")
    ELSE InstallCompletionVerified(ShareGoalWithAll(InstallOnce(s)), ch)

\* task.task = &phase{targetConfig: task}: a new object around the same
\* targetConfig
Become(s, kind) ==
    [s EXCEPT !.task = Some([s.task[1] EXCEPT !.id = FreshId(s), !.kind = kind])]

\* targetConfig.tick without the comparison of versions in its last three
\* cases
TargetConfigTickUnversioned(s) ==
    IF s.active = Nil THEN Become(s, "ensureLocalTopology")
    ELSE IF s.active[1].cfg.version = 0 THEN Become(s, "joinCluster")
    ELSE IF \/ s.active[1].next = Nil
            \/ s.active[1].next[1].cfg.version < GoalVersion(s.task[1].config)
    THEN Become(s, "installTargetOld")
    ELSE IF Len(s.active[1].next[1].pendingInstall) > 0
    THEN Become(s, "installTargetNew")
    ELSE IF DOMAIN s.active[1].next[1].pending # {}
    THEN Become(s, "migrate")
    ELSE Become(s, "installCompletion")

\* targetConfig.tick: the first tick of a fresh task picks the phase
TargetConfigTick(s) ==
    IF s.active = Nil THEN Become(s, "ensureLocalTopology")
    ELSE IF s.active[1].cfg.version = 0 THEN Become(s, "joinCluster")
    ELSE IF \/ s.active[1].next = Nil
            \/ s.active[1].next[1].cfg.version < GoalVersion(s.task[1].config)
    THEN Become(s, "installTargetOld")
    ELSE IF s.active[1].next[1].cfg.version # GoalVersion(s.task[1].config)
    THEN [s EXCEPT !.err = "Confused about what to do"]
    ELSE IF Len(s.active[1].next[1].pendingInstall) > 0
    THEN Become(s, "installTargetNew")
    ELSE IF DOMAIN s.active[1].next[1].pending # {}
    THEN Become(s, "migrate")
    ELSE Become(s, "installCompletion")

\* topologyTask.tick of the current task
Tick(s, ch) ==
    CASE s.task[1].kind = "targetConfig" ->
           TargetConfigTick([s EXCEPT !.ticked = TRUE])
      [] s.task[1].kind = "ensureLocalTopology" ->
           EnsureLocalTopologyTick([s EXCEPT !.ticked = TRUE], ch)
      [] s.task[1].kind = "joinCluster" ->
           JoinClusterTick([s EXCEPT !.ticked = TRUE], ch)
      [] s.task[1].kind = "installTargetOld" ->
           InstallTargetOldTick([s EXCEPT !.ticked = TRUE], ch)
      [] s.task[1].kind = "installTargetNew" ->
           InstallTargetNewTick([s EXCEPT !.ticked = TRUE], ch)
      [] s.task[1].kind = "migrate" ->
           MigrateTick([s EXCEPT !.ticked = TRUE], ch)
      [] OTHER -> InstallCompletionTick([s EXCEPT !.ticked = TRUE], ch)

Restrict(f, D) == [k \in D |-> f[k]]

\* The loop of setActive that deletes the ledger of every version up to the
\* active one; a counter that a running immigration still points to lives on
DeleteMigrations(s, version) ==
    LET gone == {q \in DOMAIN s.migrations : q[1] <= version}
        held == {q \in DOMAIN s.migrations :
                   q[1] <= version /\ \E i \in 1..Len(s.immig) : s.immig[i].key = q}
    IN [s EXCEPT !.migrations = Restrict(@, (DOMAIN @) \ gone),
                 !.detached = [q \in (DOMAIN @) \cup held |->
                                  IF q \in held THEN s.migrations[q] ELSE @[q]]]

\* setActive, tt.task == nil and topology.Next() == nil, after
\* tt.installTopology(topology)
SetActiveInstalled(s, topology, ch) ==
    IF ~HasLocalHost(s, s.active[1].cfg)
    THEN [s EXCEPT !.err = "local host not in topology"]
    ELSE IF ch.dbErr
    THEN [DeleteMigrations(s, topology.cfg.version) EXCEPT !.err = "disk"]
    ELSE DeleteMigrations(s, topology.cfg.version)

\* setActive after the tick of the task
SetActiveTicked(s, topology, ch) ==
    IF s.err # "" \/ s.task # Nil THEN s
    ELSE IF topology.next # Nil THEN SelectGoal(s, topology.next[1])
    ELSE SetActiveInstalled(InstallTopology(s, topology), topology, ch)

\* setActive without the case that ignores a topology of a lower version
SetActiveNoStale(s, topology, ch) ==
    IF s.active # Nil /\ s.active[1].cfg.clusterId # topology.cfg.clusterId
    THEN [s EXCEPT !.err = "Fatal: config with ClusterId change"]
    ELSE IF s.active # Nil /\ ConfigurationEqual(s.active[1], topology)
    THEN s
    ELSE IF s.rmId \in topology.cfg.rmsRemoved
    THEN [s EXCEPT !.err = "We have been removed from the cluster"]
    ELSE SetActiveTicked(
            IF s.task # Nil THEN Tick([s EXCEPT !.active = Some(topology)], ch)
            ELSE [s EXCEPT !.active = Some(topology)],
            topology, ch)

\* setActive without the case that refuses a change of the ClusterId
SetActiveNoClusterId(s, topology, ch) ==
    IF s.active # Nil /\ topology.cfg.version < s.active[1].cfg.version
    THEN s
    ELSE IF s.active # Nil /\ ConfigurationEqual(s.active[1], topology)
    THEN s
    ELSE IF s.rmId \in topology.cfg.rmsRemoved
    THEN [s EXCEPT !.err = "We have been removed from the cluster"]
    ELSE SetActiveTicked(
            IF s.task # Nil THEN Tick([s EXCEPT !.active = Some(topology)], ch)
            ELSE [s EXCEPT !.active = Some(topology)],
            topology, ch)

\* setActive that looks for its own RMId among the removed ones only after
\* it has stored the topology and ticked the task
SetActiveRemovedLate(s, topology, ch) ==
    IF s.active # Nil /\ s.active[1].cfg.clusterId # topology.cfg.clusterId
    THEN [s EXCEPT !.err = "Fatal: config with ClusterId change"]
    ELSE IF s.active # Nil /\ topology.cfg.version < s.active[1].cfg.version
    THEN s
    ELSE IF s.active # Nil /\ ConfigurationEqual(s.active[1], topology)
    THEN s
    ELSE IF s.rmId \in topology.cfg.rmsRemoved
    THEN [(IF s.task # Nil THEN Tick([s EXCEPT !.active = Some(topology)], ch)
           ELSE [s EXCEPT !.active = Some(topology)])
          EXCEPT !.err = "We have been removed from the cluster"]
    ELSE SetActiveTicked(
            IF s.task # Nil THEN Tick([s EXCEPT !.active = Some(topology)], ch)
            ELSE [s EXCEPT !.active = Some(topology)],
            topology, ch)

\* TopologyTransmogrifier.setActive
SetActive(s, topology, ch) ==
    IF s.active # Nil /\ s.active[1].cfg.clusterId # topology.cfg.clusterId
    THEN [s EXCEPT !.err = "Fatal: config with ClusterId change"]
    ELSE IF s.active # Nil /\ topology.cfg.version < s.active[1].cfg.version
    THEN s
    ELSE IF s.active # Nil /\ ConfigurationEqual(s.active[1], topology)
    THEN s
    ELSE IF s.rmId \in topology.cfg.rmsRemoved
    THEN [s EXCEPT !.err = "We have been removed from the cluster"]
    ELSE SetActiveTicked(
            IF s.task # Nil THEN Tick([s EXCEPT !.active = Some(topology)], ch)
            ELSE [s EXCEPT !.active = Some(topology)],
            topology, ch)

\* TopologyTransmogrifier.activeConnectionsChange up to the tick
SetConnections(s, conns) ==
    [s EXCEPT !.activeConnections = conns,
              !.hostToConnection =
                  {c \in @ : ~\E d \in conns : d.host = c.host} \cup conns]

\* TopologyTransmogrifier.activeConnectionsChange
ActiveConnectionsChange(s, conns, ch) ==
    IF s.task # Nil THEN Tick(SetConnections(s, conns), ch)
    ELSE SetConnections(s, conns)

\* senders[sender] = n in tt.migrations[version]
SetMigration(s, key, n) ==
    [s EXCEPT !.migrations = [q \in (DOMAIN @) \cup {key} |->
                                 IF q = key THEN n ELSE @[q]]]

\* TopologyTransmogrifier.migrationReceived; the batch is handed to the var
\* dispatcher, whose callbacks run later on their own goroutines
MigrationReceived(s, version, sender, varCount) ==
    IF s.active = Nil THEN [s EXCEPT !.err = "panic"]
    ELSE IF ~(version > s.active[1].cfg.version) THEN s
    ELSE [SetMigration(s, <<version, sender>>,
                       IF <<version, sender>> \in DOMAIN s.migrations
                       THEN s.migrations[<<version, sender>>] + 1 ELSE 2)
          EXCEPT !.immig = Append(@, [key |-> <<version, sender>>,
                                      varCount |-> varCount])]

\* migrationCompleteReceived from inprogress := int32(0) on
MigrationCompleted(s, key, inprogress, ch) ==
    IF s.task # Nil /\ inprogress = 0
    THEN Tick(SetMigration(s, key, inprogress), ch)
    ELSE SetMigration(s, key, inprogress)

\* TopologyTransmogrifier.migrationCompleteReceived
MigrationCompleteReceived(s, version, sender, ch) ==
    IF s.active = Nil /\ ~\E q \in DOMAIN s.migrations : q[1] = version
    THEN [s EXCEPT !.err = "panic"]
    ELSE IF /\ ~\E q \in DOMAIN s.migrations : q[1] = version
            /\ ~(version > s.active[1].cfg.version)
    THEN s
    ELSE MigrationCompleted(s, <<version, sender>>,
            IF <<version, sender>> \in DOMAIN s.migrations
            THEN s.migrations[<<version, sender>>] - 1 ELSE 0, ch)

\* The closure of installTopology: installed; topology is Nil unless the
\* closure is the one that sets installedOnProposers first
ExeInstalled(s, topology, ch) ==
    IF s.task # Nil
    THEN Tick([s EXCEPT !.localEstablished = FALSE,
                        !.installedOnProposers =
                            IF topology # Nil THEN topology ELSE @], ch)
    ELSE [s EXCEPT !.localEstablished = FALSE,
                   !.installedOnProposers =
                       IF topology # Nil THEN topology ELSE @]

\* The closure of enqueueTick without the test tt.task == task: it ticks
\* whatever task is the current one
ExeTickAnyTask(s, e, ch) == IF s.task # Nil THEN Tick(s, ch) ELSE s

\* The closure of enqueueTick
ExeTick(s, e, ch) ==
    IF s.task # Nil /\ s.task[1].id = e.task THEN Tick(s, ch) ELSE s

\* The closure of the var barrier without the test task.task == task.migrate,
\* recording the barrier in whatever task is the current one
ExeBarrierAnyTask(s, e, ch) ==
    IF s.task # Nil
    THEN Tick([s EXCEPT !.task = Some([s.task[1] EXCEPT
                                         !.varBarrierReached = e.cfg])], ch)
    ELSE s

\* The closure of migrateAwaitClientDrain.tick: the var barrier
ExeBarrier(s, e, ch) ==
    IF s.task # Nil /\ s.task[1].id = e.task
    THEN Tick([s EXCEPT !.task = Some([s.task[1] EXCEPT
                                         !.varBarrierReached = e.cfg])], ch)
    ELSE s

\* The closure of migrationReceived: the end of an immigration
ExeImmigrated(s, ch) == IF s.task # Nil THEN Tick(s, ch) ELSE s

----------------------------------------------------------------------------
(* The actor loop. A handler runs to its end in one step; what it cannot   *)
(* know in advance (a transaction's outcome, a disk error, the order of a  *)
(* map iteration) is the choice record ch.                                 *)

RootOutcomes == {"commit", "resubmit", "badRead", "shutdown"}

TaskKind(s) == IF s.task = Nil THEN "none" ELSE s.task[1].kind

\* The choices a handler can meet, given the task it starts with; observed
\* tells that the handler is setActive, which waits for the disk. A handler
\* consults the disk only if it has run no transaction, the rewrite follows
\* the creation of the root only if that committed, and the order of a range
\* over a map is a choice only if the map has two entries or more.
ChoicesFor(s, observed) ==
    {ch \in [outcome : IF TaskKind(s) \notin {"none", "targetConfig"}
                       THEN Outcomes ELSE {"commit"},
             rootOutcome : IF TaskKind(s) = "joinCluster"
                           THEN RootOutcomes ELSE {"commit"},
             rootId : {1},
             dbErr : IF \/ observed /\ TaskKind(s) # "targetConfig"
                        \/ TaskKind(s) = "ensureLocalTopology"
                     THEN BOOLEAN ELSE {FALSE},
             addedDesc : IF /\ TaskKind(s) = "installTargetOld"
                            /\ Cardinality(SeqToSet(s.task[1].config.cfg.hosts)
                                  \ SeqToSet(s.active[1].cfg.hosts)) > 1
                         THEN BOOLEAN ELSE {FALSE},
             survivedDesc : IF \/ /\ TaskKind(s) = "installTargetOld"
                                  /\ Cardinality(SeqToSet(s.task[1].config.cfg.hosts)
                                        \cap SeqToSet(s.active[1].cfg.hosts)) > 1
                               \/ /\ TaskKind(s) = "migrate"
                                  /\ Cardinality(DOMAIN s.migrations) > 1
                            THEN BOOLEAN ELSE {FALSE}] :
        /\ ch.rootOutcome # "commit" => ch.outcome = "commit"
        /\ ch.dbErr => /\ ch.outcome = "commit" /\ ch.rootOutcome = "commit"
                       /\ ~ch.addedDesc /\ ~ch.survivedDesc}

CurTaskId(s) == IF s.task = Nil THEN 0 ELSE s.task[1].id

\* The loop receives a message only when oldTask == tt.task
CanReceive(s) == ~s.terminated /\ s.oldTask = CurTaskId(s)

\* ticked, lastTxn and lastOutcome tell what one handler did (whether it
\* ticked the task, the transaction it ran and how that ended); they are
\* cleared when the handler returns
Begin(s) == [s EXCEPT !.ticked = FALSE, !.lastTxn = Nil, !.lastOutcome = ""]

\* terminate = terminate || err != nil. The closures of a task that is no
\* longer the current one do nothing when they run; they are dropped here.
Finish(s) ==
    Begin([s EXCEPT !.terminated = @ \/ s.err # "",
                    !.exes = {e \in @ : e.kind = "immigrated" \/ e.task = CurTaskId(s)}])

\* One turn of the loop that leaves the actor as s. A handler that would
\* leave more callbacks outstanding than the bounds allow is not taken.
Handled(n, s) ==
    /\ Len(s.installQ) <= MaxInstallQ
    /\ Cardinality(s.exes) <= MaxExes
    /\ tt' = [tt EXCEPT ![n] = Finish(s)]

\* actorLoop, oldTask != tt.task
LoopTick(n) ==
    /\ ~tt[n].terminated
    /\ tt[n].oldTask # CurTaskId(tt[n])
    /\ IF tt[n].task = Nil
       THEN Handled(n, Begin([tt[n] EXCEPT !.oldTask = 0]))
       ELSE \E ch \in ChoicesFor(tt[n], FALSE) :
              Handled(n, Tick(Begin([tt[n] EXCEPT !.oldTask = CurTaskId(tt[n])]), ch))
    /\ UNCHANGED <<store, obs, em, net, led, sts, vm, tc>>

\* actorLoop, topologyTransmogrifierMsgShutdown
Shutdown(n) ==
    /\ CanReceive(tt[n])
    /\ tt' = [tt EXCEPT ![n].terminated = TRUE]
    /\ UNCHANGED <<store, obs, em, net, led, sts, vm, tc>>

\* actorLoop, topologyTransmogrifierMsgSetActiveConnections
SetActiveConnections(n, conns) ==
    /\ CanReceive(tt[n])
    /\ \E ch \in ChoicesFor(tt[n], FALSE) :
          Handled(n, ActiveConnectionsChange(Begin(tt[n]), conns, ch))
    /\ UNCHANGED <<store, obs, em, net, led, sts, vm, tc>>

\* actorLoop, topologyTransmogrifierMsgTopologyObserved
TopologyObserved(n, topology) ==
    /\ CanReceive(tt[n])
    /\ \E ch \in ChoicesFor(tt[n], TRUE) :
          Handled(n, SetActive(Begin(tt[n]), topology, ch))
    /\ UNCHANGED <<store, obs, em, net, led, sts, vm, tc>>

\* actorLoop, topologyTransmogrifierMsgRequestConfigChange
RequestConfigChange(n, goal) ==
    /\ CanReceive(tt[n])
    /\ Handled(n, SelectGoal(Begin(tt[n]), goal))
    /\ UNCHANGED <<store, obs, em, net, led, sts, vm, tc>>

\* actorLoop, topologyTransmogrifierMsgExe: the installed callback of the
\* oldest SetTopology still outstanding
Installed(n) ==
    /\ CanReceive(tt[n])
    /\ tt[n].installQ # <<>>
    /\ \E ch \in ChoicesFor(tt[n], FALSE) :
          Handled(n, ExeInstalled([Begin(tt[n]) EXCEPT !.installQ = Tail(@)],
                                  Head(tt[n].installQ), ch))
    /\ UNCHANGED <<store, obs, em, net, led, sts, vm, tc>>

\* err = msgT() for the closures other than installed
RunExe(s, e, ch) ==
    CASE e.kind = "tick" -> ExeTick(s, e, ch)
      [] e.kind = "barrier" -> ExeBarrier(s, e, ch)
      [] OTHER -> ExeImmigrated(s, ch)

\* actorLoop, topologyTransmogrifierMsgExe: the other closures
Exe(n, e) ==
    /\ CanReceive(tt[n])
    /\ e \in tt[n].exes
    /\ \E ch \in ChoicesFor(tt[n], FALSE) :
          Handled(n, RunExe([Begin(tt[n]) EXCEPT !.exes = @ \ {e}], e, ch))
    /\ UNCHANGED <<store, obs, em, net, led, sts, vm, tc>>

----------------------------------------------------------------------------
(* One actor in an arbitrary environment: what it observes, is asked for   *)
(* and is connected to is drawn from the sets below.                       *)

Self == 1
Peer == 2
Third == 3
\* Host names, as numbers so that a map over hosts has an order to range in
HostOf(rm) == 10 + rm

\* The configuration of cluster cid at version v: both hosts, F = 0
CfgOf(cid, v) == Conf(cid, v, <<HostOf(Self), HostOf(Peer)>>, 0, <<Self, Peer>>, {})

InitialGoal == GoalOf(CfgOf("c1", 1))

\* The next configuration of a change to version v that keeps both RMs:
\* nothing to install on new RMs, nothing to migrate
NextOf(cid, v) ==
    NextConf(CfgOf(cid, v), <<HostOf(Peer), HostOf(Self)>>, <<>>,
             <<Self, Peer>>, <<>>, <<>>, <<>>)

\* What the topology variable's subscriber may deliver: the topology zero of
\* a first start, settled topologies, topologies in transition, the topology
\* of another cluster, and one that has removed this RM
EnvTopologies ==
    {[BlankTopology("c1") EXCEPT !.next = Some(InitialGoal)]}
    \cup {Topology(CfgOf("c1", v), Nil, v, Some(1)) : v \in 1..MaxVersion}
    \cup {Topology(CfgOf("c1", v - 1), Some(NextOf("c1", v)), v - 1, Some(1)) :
             v \in 2..MaxVersion}
    \cup {Topology(CfgOf("c2", 1), Nil, 1, Some(2))}
    \cup {Topology([CfgOf("c1", MaxVersion) EXCEPT !.rmsRemoved = {Self}],
                   Nil, MaxVersion, Some(1))}

EnvGoals ==
    {GoalOf(CfgOf("c1", v)) : v \in 0..MaxVersion}
    \cup {GoalOf(CfgOf("c2", MaxVersion))}

SelfConn == Conn(HostOf(Self), Self, Nil, 0)
EnvConns ==
    {{}, {SelfConn},
     {SelfConn, Conn(HostOf(Peer), Peer, Some(1), 0)}}

\* NewTopologyTransmogrifier
InitNode(rm, config, db) ==
    [rmId |-> rm, host |-> HostOf(rm), active |-> Nil,
     task |-> Some(Task(1, "targetConfig", GoalOf(config))), oldTask |-> 0,
     exes |-> {}, emigrators |-> {}, senders |-> {}, installQ |-> <<>>,
     installedOnProposers |-> Nil,
     lastTxn |-> Nil, lastOutcome |-> "", localDb |-> db,
     hostToConnection |-> {}, activeConnections |-> {},
     migrations |-> <<>>, detached |-> <<>>, immig |-> <<>>,
     ticked |-> FALSE, localEstablished |-> TRUE, err |-> "",
     terminated |-> FALSE, innerRetry |-> FALSE, scans |-> {}]

\* No emigrator has been made, no connection manager has a connection
NoEmigrator ==
    [state |-> "none", stop |-> FALSE, topology |-> Nil,
     conn |-> 0, used |-> 0, scans |-> {}]

\* Nothing has happened to any ledger entry yet: per sender the completes
\* handled, the times its counter came to zero, and what was made of that
NoLedger ==
    [hist |-> [x \in {Peer} |->
                 [compl |-> 0, zeros |-> 0, ticks |-> 0, idle |-> 0, enq |-> 0]],
     owed |-> FALSE, scan |-> Nil]

\* NewSimpleTxnSubmitter: no topology yet, nothing buffered
NoSubmitter == [topology |-> Nil, bufferedSubmissions |-> <<>>]

\* No topology change has been given to the connection manager
NoChanges == [changes |-> <<>>, handled |-> 0]

Init ==
    /\ tt = (Self :> InitNode(Self, CfgOf("c1", 1), Nil))
    /\ store = Nil
    /\ obs = (Self :> <<>>)
    /\ em = NoEmigrator
    /\ net = <<>>
    /\ led = NoLedger
    /\ sts = NoSubmitter
    /\ vm = <<>>
    /\ tc = NoChanges

Next ==
    \/ LoopTick(Self)
    \/ Shutdown(Self)
    \/ \E conns \in EnvConns : SetActiveConnections(Self, conns)
    \/ \E t \in EnvTopologies : TopologyObserved(Self, t)
    \/ \E g \in EnvGoals : RequestConfigChange(Self, g)
    \/ Installed(Self)
    \/ \E e \in tt[Self].exes : Exe(Self, e)

Spec == Init /\ [][Next]_vars

----------------------------------------------------------------------------
(* setActive and selectGoal, checked under Spec. A handler is applied to   *)
(* every message the environment can send, in every state in which the     *)
(* loop can receive it.                                                    *)

\* What setActive may make of the active topology old when it is given
\* topology: new is the active topology it leaves
ActiveKept(old, topology, new) ==
    /\ new # Nil
    /\ new[1].cfg.clusterId = old[1].cfg.clusterId
    /\ new[1].cfg.version >= old[1].cfg.version
    /\ new \in {old, Some(topology)}
    /\ topology.cfg.version < old[1].cfg.version => new = old

C1_Observed ==
    CanReceive(tt[Self]) /\ tt[Self].active # Nil =>
        \A t \in EnvTopologies : \A ch \in ChoicesFor(tt[Self], TRUE) :
            ActiveKept(tt[Self].active, t,
                       SetActive(Begin(tt[Self]), t, ch).active)

C1_Step ==
    tt[Self].active # Nil =>
        /\ tt'[Self].active # Nil
        /\ tt'[Self].active[1].cfg.clusterId = tt[Self].active[1].cfg.clusterId
        /\ tt'[Self].active[1].cfg.version >= tt[Self].active[1].cfg.version

\* C1: on a node, whatever topologies are observed, goals requested and
\* connections changed, a topology that setActive installs as active has the
\* clusterId of the one active before and a version that is not lower, and
\* an observed topology of a lower version leaves active as it is.
C1_ActiveNeverRegresses == []C1_Observed /\ [][C1_Step]_vars

\* An active topology that one observed topology would replace by a higher
\* version and that another one, of a lower version, has to leave alone
C1_Witness ==
    /\ CanReceive(tt[Self])
    /\ tt[Self].active # Nil
    /\ \E t \in EnvTopologies : \E ch \in ChoicesFor(tt[Self], TRUE) :
          /\ t.cfg.version > tt[Self].active[1].cfg.version
          /\ SetActive(Begin(tt[Self]), t, ch).active = Some(t)
    /\ \E t \in EnvTopologies : \E ch \in ChoicesFor(tt[Self], TRUE) :
          /\ t.cfg.version < tt[Self].active[1].cfg.version
          /\ SetActive(Begin(tt[Self]), t, ch).active = tt[Self].active

\* What setActive leaves of the actor s when it refuses the topology: r is
\* the actor when setActive returns
Refused(s, r) ==
    /\ r.err # ""
    /\ Finish(r).terminated
    /\ r.active = s.active
    /\ ~r.ticked
    /\ r.task = s.task
    /\ r.installQ = s.installQ

C2_Observed ==
    CanReceive(tt[Self]) /\ tt[Self].active # Nil =>
        \A t \in EnvTopologies : \A ch \in ChoicesFor(tt[Self], TRUE) :
            t.cfg.clusterId # tt[Self].active[1].cfg.clusterId =>
                Refused(Begin(tt[Self]), SetActive(Begin(tt[Self]), t, ch))

\* A terminated loop takes no message and ticks no task
Stopped == tt[Self].terminated => tt'[Self] = tt[Self]

Ignored(s, topology) ==
    /\ s.active # Nil
    /\ \/ topology.cfg.version < s.active[1].cfg.version
       \/ ConfigurationEqual(s.active[1], topology)

C3_Observed ==
    CanReceive(tt[Self]) =>
        \A t \in EnvTopologies : \A ch \in ChoicesFor(tt[Self], TRUE) :
            tt[Self].rmId \in t.cfg.rmsRemoved /\ ~Ignored(tt[Self], t) =>
                Refused(Begin(tt[Self]), SetActive(Begin(tt[Self]), t, ch))

HigherGoal(s, goal) ==
    /\ GoalClusterId(goal) = GoalClusterId(s.task[1].config)
    /\ GoalVersion(goal) > GoalVersion(s.task[1].config)
    /\ s.active # Nil => /\ GoalClusterId(goal) = s.active[1].cfg.clusterId
                         /\ GoalVersion(goal) > s.active[1].cfg.version

\* What selectGoal makes of the actor s with a live task when it is given
\* goal: r is the actor when selectGoal returns
GoalSelected(s, goal, r) ==
    /\ HigherGoal(s, goal) =>
          /\ r.task # Nil
          /\ r.task[1] = Task(r.task[1].id, "targetConfig", goal)
          /\ r.task[1].id # s.task[1].id
          /\ r.senders = s.senders \ {s.task[1].config}
          /\ \A e \in r.emigrators : e.id # s.task[1].emigrator
    /\ \/ GoalVersion(goal) <= GoalVersion(s.task[1].config)
       \/ s.active # Nil /\ GoalVersion(goal) <= s.active[1].cfg.version
       => r = s
    /\ r.task # Nil
    /\ GoalVersion(r.task[1].config) >= GoalVersion(s.task[1].config)
    /\ r.err = ""

\* C4: selectGoal with a live task abandons the task and puts a fresh task
\* for the goal in its place when the goal has the clusterId of the goal in
\* progress and a version above that goal's and above the active topology's;
\* it leaves the task and its goal as they are when the goal's version is
\* no higher than that of the goal in progress or of the active topology.
\* So selectGoal never lowers the version of the goal of a live task.
C4_GoalNeverRegresses ==
    CanReceive(tt[Self]) /\ tt[Self].task # Nil =>
        \A g \in EnvGoals :
            GoalSelected(Begin(tt[Self]), g, SelectGoal(Begin(tt[Self]), g))

\* Before any topology is active the task is a fresh one for a goal above
\* the goal the node was started with: selectGoal has replaced the task
C4_Witness ==
    /\ tt[Self].active = Nil
    /\ tt[Self].task # Nil
    /\ tt[Self].task[1].kind = "targetConfig"
    /\ GoalVersion(tt[Self].task[1].config) > GoalVersion(InitialGoal)
    /\ tt[Self].oldTask # 0
    /\ ~tt[Self].terminated

\* C5: a requested goal whose clusterId is not that of the active topology,
\* or not that of the goal in progress, is fatal: selectGoal on it
\* terminates the actor.
C5_ForeignGoalIsFatal ==
    CanReceive(tt[Self]) =>
        \A g \in EnvGoals :
            (\/ /\ tt[Self].active # Nil
                /\ GoalClusterId(g) # tt[Self].active[1].cfg.clusterId
             \/ /\ tt[Self].task # Nil
                /\ GoalClusterId(g) # GoalClusterId(tt[Self].task[1].config))
            => Finish(SelectGoal(Begin(tt[Self]), g)).terminated

----------------------------------------------------------------------------
(* Two nodes of one cluster, both settled on version 1 and connected to    *)
(* each other. store is the topology variable with the version of its last *)
(* write; obs[n] is the queue of writes the subscriber of node n has still *)
(* to deliver. Each node may be asked for either of two configurations of  *)
(* version 2 that differ in the order of their hosts.                      *)

Nodes == {Self, Peer}

ConnsOf(n) ==
    {Conn(HostOf(m), m, IF m = n THEN Nil ELSE Some(1), 0) : m \in Nodes}

\* The topology of version 1 as the topology variable holds it
SettledTopology == Topology(CfgOf("c1", 1), Nil, 1, Some(1))

\* A node once its first task has completed and its topology is installed
SettledNode(rm) ==
    [InitNode(rm, CfgOf("c1", 1),
              Some([BlankTopology("c1") EXCEPT !.next = Some(InitialGoal)]))
       EXCEPT !.active = Some(SettledTopology), !.task = Nil, !.oldTask = 0,
              !.activeConnections = ConnsOf(rm), !.hostToConnection = ConnsOf(rm),
              !.localEstablished = FALSE]

GoalA == GoalOf(CfgOf("c1", 2))
GoalB == GoalOf([CfgOf("c1", 2) EXCEPT !.hosts = <<HostOf(Peer), HostOf(Self)>>])
ClusterGoals == {GoalA, GoalB}

\* What a handler can meet on a healthy node: the disk answers, the local
\* connection is not shutting down, and an abort carries the one write of
\* the topology variable it was beaten by
ClusterChoices(s) ==
    {ch \in ChoicesFor(s, FALSE) :
        ch.outcome \notin {"badRerun", "shutdown"} /\ ~ch.dbErr}

\* One turn of the loop of node n that leaves the actor as r and the queue
\* of its subscriber as q. The transaction that the turn ran commits only
\* if it read the version the topology variable has; then its write is the
\* variable's new value and every subscriber is told. It is aborted with
\* the newer value only if there is one.
Transact(n, r, q) ==
    /\ Handled(n, r)
    /\ r.lastTxn # Nil /\ r.lastOutcome = "commit" =>
          /\ r.lastTxn[1].read[1].dbVersion = store.dbVersion
          /\ store' = [r.lastTxn[1].write[1] EXCEPT !.dbVersion = store.dbVersion + 1]
          /\ obs' = [m \in Nodes |->
                       Append(IF m = n THEN q ELSE obs[m],
                              [r.lastTxn[1].write[1] EXCEPT
                                  !.dbVersion = store.dbVersion + 1])]
    /\ r.lastTxn # Nil /\ r.lastOutcome = "badRead" =>
          r.lastTxn[1].read[1].dbVersion # store.dbVersion
    /\ r.lastTxn = Nil \/ r.lastOutcome # "commit" =>
          /\ store' = store
          /\ obs' = [obs EXCEPT ![n] = q]

\* actorLoop, oldTask != tt.task
ClusterTick(n) ==
    /\ ~tt[n].terminated
    /\ tt[n].oldTask # CurTaskId(tt[n])
    /\ IF tt[n].task = Nil
       THEN Transact(n, Begin([tt[n] EXCEPT !.oldTask = 0]), obs[n])
       ELSE \E ch \in ClusterChoices(tt[n]) :
              Transact(n, Tick(Begin([tt[n] EXCEPT !.oldTask = CurTaskId(tt[n])]), ch),
                       obs[n])
    /\ UNCHANGED <<em, net, led, sts, vm, tc>>

\* actorLoop, topologyTransmogrifierMsgTopologyObserved from the subscriber
ClusterObserved(n) ==
    /\ CanReceive(tt[n])
    /\ obs[n] # <<>>
    /\ \E ch \in ClusterChoices(tt[n]) :
          Transact(n, SetActive(Begin(tt[n]), Head(obs[n]), ch), Tail(obs[n]))
    /\ UNCHANGED <<em, net, led, sts, vm, tc>>

\* actorLoop, topologyTransmogrifierMsgRequestConfigChange: from an operator
\* or from the sender of another node's task
ClusterRequest(n, goal) ==
    /\ CanReceive(tt[n])
    /\ Transact(n, SelectGoal(Begin(tt[n]), goal), obs[n])
    /\ UNCHANGED <<em, net, led, sts, vm, tc>>

\* actorLoop, topologyTransmogrifierMsgExe: installed
ClusterInstalled(n) ==
    /\ CanReceive(tt[n])
    /\ tt[n].installQ # <<>>
    /\ \E ch \in ClusterChoices(tt[n]) :
          Transact(n, ExeInstalled([Begin(tt[n]) EXCEPT !.installQ = Tail(@)],
                                   Head(tt[n].installQ), ch),
                   obs[n])
    /\ UNCHANGED <<em, net, led, sts, vm, tc>>

\* actorLoop, topologyTransmogrifierMsgExe: the other closures
ClusterExe(n, e) ==
    /\ CanReceive(tt[n])
    /\ \E ch \in ClusterChoices(tt[n]) :
          Transact(n, RunExe([Begin(tt[n]) EXCEPT !.exes = @ \ {e}], e, ch), obs[n])
    /\ UNCHANGED <<em, net, led, sts, vm, tc>>

ClusterInit ==
    /\ tt = [n \in Nodes |-> SettledNode(n)]
    /\ store = SettledTopology
    /\ obs = [n \in Nodes |-> <<>>]
    /\ em = NoEmigrator
    /\ net = <<>>
    /\ led = NoLedger
    /\ sts = NoSubmitter
    /\ vm = <<>>
    /\ tc = NoChanges

ClusterNext ==
    \/ \E n \in Nodes : ClusterTick(n)
    \/ \E n \in Nodes : ClusterObserved(n)
    \/ \E n \in Nodes : \E g \in ClusterGoals : ClusterRequest(n, g)
    \/ \E n \in Nodes : ClusterInstalled(n)
    \/ \E n \in Nodes : \E e \in tt[n].exes : ClusterExe(n, e)

ClusterSpec == ClusterInit /\ [][ClusterNext]_vars

\* The hosts, in their order, of the configuration of version 2 that the
\* topology t is changing to or has changed to; Nil if there is none
GoalIn(t) ==
    IF t.next # Nil THEN Some(t.next[1].cfg.hosts)
    ELSE IF t.cfg.version = 2 THEN Some(t.cfg.hosts)
    ELSE Nil

\* The next in the topology variable is made from one of the two goals, a
\* node that has seen it works on it and nothing else, a request for either
\* goal changes nothing on a node that has a task or has reached version 2,
\* and no node has failed
C6_Settled ==
    /\ GoalIn(store) \in {Nil, Some(GoalA.cfg.hosts), Some(GoalB.cfg.hosts)}
    /\ store.next # Nil =>
          \E g \in ClusterGoals :
              store.next[1].cfg = [g.cfg EXCEPT !.rms = SettledTopology.cfg.rms]
    /\ \A n \in Nodes :
          /\ tt[n].err = "" /\ ~tt[n].terminated
          /\ tt[n].active # Nil
          /\ tt[n].active[1].dbVersion <= store.dbVersion
          /\ GoalIn(tt[n].active[1]) \in {Nil, GoalIn(store)}
          /\ tt[n].active[1].next # Nil =>
                /\ tt[n].task # Nil
                /\ tt[n].task[1].config = tt[n].active[1].next[1]
          /\ CanReceive(tt[n]) /\ (tt[n].task # Nil \/ tt[n].active[1].cfg.version = 2)
                => \A g \in ClusterGoals :
                      SelectGoal(Begin(tt[n]), g) = Begin(tt[n])

\* No node has a message to take or a task to tick
Quiet ==
    \A n \in Nodes :
        /\ obs[n] = <<>> /\ tt[n].installQ = <<>> /\ tt[n].exes = {}
        /\ CanReceive(tt[n])

\* When the cluster has come to rest, either no goal was requested or the
\* cluster is at version 2 with the configuration of one of the goals
C6_AtRest ==
    Quiet =>
        /\ \A n \in Nodes :
              tt[n].task = Nil /\ ConfigurationEqual(tt[n].active[1], store)
        /\ store.next = Nil
        /\ \/ store = SettledTopology
           \/ \E g \in ClusterGoals :
                 store.cfg = [g.cfg EXCEPT !.rms = SettledTopology.cfg.rms]

\* Once the topology variable holds a next of version 2, or the
\* configuration of version 2, every later write keeps that goal
C6_Kept == GoalIn(store) # Nil => GoalIn(store') = GoalIn(store)

\* C6: of two goals of the same clusterId and version and of different
\* contents, requested in either order at one node or at both, one and only
\* one is written as next into the topology variable: the first write
\* stands, no later write replaces it by the other goal, and the cluster
\* comes to rest only on the configuration of the goal that was written. A
\* node treats the other goal as already in progress and drops it without
\* an error.
C6_OneGoalWins == [](C6_Settled /\ C6_AtRest) /\ [][C6_Kept]_vars

\* The topology variable holds the next made from one goal while a node
\* that was asked for the other goal is still working on that one
C6_Witness ==
    /\ store.next # Nil
    /\ GoalIn(store) = Some(GoalB.cfg.hosts)
    /\ \E n \in Nodes :
          /\ tt[n].task # Nil
          /\ tt[n].task[1].config = GoalA
          /\ tt[n].task[1].kind = "installTargetOld"
          /\ tt[n].task[1].sender

----------------------------------------------------------------------------
(* A migration. Three RMs have settled on version 1 with F = 0; the goal   *)
(* of version 2 drops the third, so that the two survivors each have to    *)
(* take over a part of what the third one held: both are in next.pending.  *)
(* Self is a full actor and the receiver. Peer is the sender: its          *)
(* connection manager, its emigrator and the scans that one starts; of its *)
(* actor only the making and the stopping of the emigrator.                *)

MigCfg == Conf("c1", 1, <<HostOf(Self), HostOf(Peer), HostOf(Third)>>, 0,
               <<Self, Peer, Third>>, {})

MigGoal == GoalOf(Conf("c1", 2, <<HostOf(Self), HostOf(Peer)>>, 0, <<>>, {}))

MigTopology == Topology(MigCfg, Nil, 1, Some(1))

MigConns(n) ==
    {Conn(HostOf(m), m, IF m = n THEN Nil ELSE Some(1), 0) :
        m \in {Self, Peer, Third}}

\* A node once its first task has completed and its topology is installed
MigNode(rm) ==
    [InitNode(rm, MigCfg,
              Some([BlankTopology("c1") EXCEPT !.next = Some(GoalOf(MigCfg))]))
       EXCEPT !.active = Some(MigTopology), !.task = Nil, !.oldTask = 0,
              !.activeConnections = MigConns(rm), !.hostToConnection = MigConns(rm),
              !.localEstablished = FALSE]

\* migrate.tick goes on with the topology t: t has a next without
\* pendingInstall and with pending
Migrating(t) ==
    /\ t.next # Nil
    /\ Len(t.next[1].pendingInstall) = 0
    /\ DOMAIN t.next[1].pending # {}

\* The bounds of a migration: the connections that Peer's connection manager
\* has to Self one after the other, the batches of a scan, the variables
\* of a batch
MaxConns == 2
MaxBatches == 1
MaxVars == 2

\* paxos.Connection.Send of a Migration or of a MigrationComplete: the
\* message as the receiver's DispatchMessage hands it to the actor
Msg(kind, version, sender, conn, varCount) ==
    [kind |-> kind, version |-> version, sender |-> sender, conn |-> conn,
     varCount |-> varCount]

\* newEmigrator under ensureEmigrator: Peer's task has passed its var
\* barrier; the emigrator holds on to task.active. AddSender reaches the
\* connection manager later.
NewEmigrator ==
    /\ em.state = "none"
    /\ Migrating(store)
    /\ em' = [em EXCEPT !.state = "new", !.topology = Some(store)]
    /\ UNCHANGED <<tt, store, obs, net, led, sts, vm, tc>>

\* emigrator.stopAsync under ensureStopEmigrator: Peer's task has completed
\* or was abandoned. RemoveSenderAsync reaches the connection manager later.
StopAsync ==
    /\ em.state # "none"
    /\ ~em.stop
    /\ em' = [em EXCEPT !.stop = TRUE]
    /\ UNCHANGED <<tt, store, obs, net, led, sts, vm, tc>>

\* emigrator.newBatch and startBatch: a dbIterator for the connection conn
\* that has left batches to flush
StartBatch(e, conn, left) ==
    [e EXCEPT !.scans = @ \cup {[conn |-> conn, left |-> left]}]

\* emigrator.ConnectedRMs, the only other RM in Pending being Self
EmigratorConnectedRMs(e, left) ==
    IF e.conn # 0 /\ Self \in DOMAIN e.topology[1].next[1].pending
    THEN StartBatch(e, e.conn, left)
    ELSE e

\* emigrator.ConnectionEstablished for the new connection conn to Self
EmigratorConnectionEstablished(e, conn, left) ==
    IF Self \in DOMAIN e.topology[1].next[1].pending
    THEN StartBatch(e, conn, left)
    ELSE e

\* serverConnSubscribers.AddSubscriber for the emigrator
SenderAdded ==
    /\ em.state = "new"
    /\ \E left \in 0..MaxBatches :
          em' = [EmigratorConnectedRMs(em, left) EXCEPT !.state = "running"]
    /\ UNCHANGED <<tt, store, obs, net, led, sts, vm, tc>>

\* serverConnSubscribers.RemoveSubscriber for the emigrator, asked for by
\* stopAsync
SenderRemoved ==
    /\ em.state = "running"
    /\ em.stop
    /\ em' = [em EXCEPT !.state = "removed"]
    /\ UNCHANGED <<tt, store, obs, net, led, sts, vm, tc>>

\* The messages of q but for the last k that Peer sent on connection conn
RECURSIVE Lose(_, _, _)
Lose(q, conn, k) ==
    IF k = 0 \/ q = <<>> THEN q
    ELSE IF q[Len(q)].sender = Peer /\ q[Len(q)].conn = conn
    THEN Lose(SubSeq(q, 1, Len(q) - 1), conn, k - 1)
    ELSE Append(Lose(SubSeq(q, 1, Len(q) - 1), conn, k), q[Len(q)])

\* ConnectionManager.serverLost for the connection to Self, once there is an
\* emigrator. What was sent last on the connection may be lost with it. A
\* scan on that connection is owed its complete from now on.
ServerLost ==
    /\ em.conn # 0
    /\ em.state # "none"
    /\ em' = [em EXCEPT !.conn = 0]
    /\ \E k \in 0..Len(net) :
          /\ k <= Cardinality({j \in 1..Len(net) :
                     net[j].sender = Peer /\ net[j].conn = em.conn})
          /\ net' = Lose(net, em.conn, k)
    /\ led' = [led EXCEPT !.owed = @ \/ \E sc \in em.scans : sc.conn = em.conn]
    /\ UNCHANGED <<tt, store, obs, sts, vm, tc>>

\* ConnectionManager.serverEstablished for a new connection to Self, with
\* serverConnSubscribers.ServerConnEstablished
ServerEstablished ==
    /\ em.conn = 0
    /\ em.used < MaxConns
    /\ \E left \in 0..MaxBatches :
          em' = [(IF em.state = "running"
                  THEN EmigratorConnectionEstablished(em, em.used + 1, left)
                  ELSE em)
                 EXCEPT !.conn = em.used + 1, !.used = em.used + 1]
    /\ UNCHANGED <<tt, store, obs, net, led, sts, vm, tc>>

\* sendBatch.flush: a Migration message on the connection of the scan; what
\* is sent on a connection that is gone is lost
Flush(e, q, sc, varCount) ==
    IF sc.conn = e.conn
    THEN Append(q, Msg("migration", e.topology[1].next[1].cfg.version, Peer,
                       sc.conn, varCount))
    ELSE q

\* dbIterator.iterate: one more batch is full, or the scan is over and the
\* batch is flushed
SendBatch(sc) ==
    /\ sc.left > 0
    /\ \E varCount \in 1..MaxVars : net' = Flush(em, net, sc, varCount)
    /\ em' = [em EXCEPT !.scans = (@ \ {sc}) \cup {[sc EXCEPT !.left = @ - 1]}]
    /\ UNCHANGED <<tt, store, obs, led, sts, vm, tc>>

\* dbIterator.ConnectedRMs that sends the complete whenever Self is connected
DbIteratorConnectedRMsAnyConn(e, q, sc) ==
    IF e.stop THEN q
    ELSE IF e.conn # 0
    THEN Append(q, Msg("complete", e.topology[1].next[1].cfg.version, Peer,
                       e.conn, 0))
    ELSE q

\* dbIterator.ConnectedRMs: the queue of messages after it
DbIteratorConnectedRMs(e, q, sc) ==
    IF e.stop THEN q
    ELSE IF e.conn # 0 /\ sc.conn = e.conn
    THEN Append(q, Msg("complete", e.topology[1].next[1].cfg.version, Peer,
                       sc.conn, 0))
    ELSE q

\* dbIterator.iterate after the last flush: AddSender(it), and the
\* connection manager calls it.ConnectedRMs
ScanDone(sc) ==
    /\ sc.left = 0
    /\ net' = DbIteratorConnectedRMs(em, net, sc)
    /\ em' = [em EXCEPT !.scans = @ \ {sc}]
    /\ led' = [led EXCEPT
                 !.owed = @ /\ net' = net,
                 !.scan = Some([same |-> sc.conn = em.conn, stop |-> em.stop,
                                sent |-> net' # net])]
    /\ UNCHANGED <<tt, store, obs, sts, vm, tc>>

\* actorLoop, topologyTransmogrifierMsgMigration and MsgMigrationComplete
HandleMsg(s, m, ch) ==
    IF m.kind = "migration"
    THEN MigrationReceived(s, m.version, m.sender, m.varCount)
    ELSE MigrationCompleteReceived(s, m.version, m.sender, ch)

\* The counter of the ledger entry key came to zero between s and r
CameToZero(s, r, key) ==
    /\ key \in DOMAIN r.migrations
    /\ r.migrations[key] = 0
    /\ key \in DOMAIN s.migrations => s.migrations[key] # 0

\* What the handling of the message m, from s to r, adds to the history
Recorded(m, s, r) ==
    [led EXCEPT !.hist[m.sender] =
        [compl |-> @.compl + (IF m.kind = "complete" THEN 1 ELSE 0),
         zeros |-> @.zeros
                     + (IF CameToZero(s, r, <<m.version, m.sender>>) THEN 1 ELSE 0),
         ticks |-> @.ticks + (IF r.ticked THEN 1 ELSE 0),
         idle |-> @.idle + (IF /\ CameToZero(s, r, <<m.version, m.sender>>)
                               /\ s.task = Nil
                            THEN 1 ELSE 0),
         enq |-> @.enq]]

\* One turn of the loop of Self for the message m
Delivered(m, s, r) ==
    /\ Transact(Self, r, obs[Self])
    /\ net' = Tail(net)
    /\ led' = Recorded(m, s, r)
    /\ UNCHANGED <<em, sts, vm, tc>>

\* DispatchMessage hands the oldest message to the actor of Self
Deliver ==
    /\ net # <<>>
    /\ CanReceive(tt[Self])
    /\ \E ch \in ClusterChoices(tt[Self]) :
          Delivered(Head(net), Begin(tt[Self]),
                    HandleMsg(Begin(tt[Self]), Head(net), ch))

\* The counter that inprogressPtr of the closure points to: the ledger
\* entry, or the counter that setActive has taken out of the ledger
Inprogress(s, key) ==
    IF key \in DOMAIN s.detached THEN s.detached[key] ELSE s.migrations[key]

\* atomic.AddInt32(inprogressPtr, -1)
DecInprogress(s, key) ==
    IF key \in DOMAIN s.detached
    THEN [s EXCEPT !.detached[key] = @ - 1]
    ELSE [s EXCEPT !.migrations[key] = @ - 1]

\* The closure has run to its end: nothing refers to batch i any more, nor
\* to a counter outside the ledger that only batch i pointed to
Applied(s, i) ==
    [s EXCEPT
       !.immig = [j \in 1..(Len(@) - 1) |-> IF j < i THEN @[j] ELSE @[j + 1]],
       !.detached = Restrict(@, {q \in DOMAIN @ :
                        \E j \in (1..Len(s.immig)) \ {i} : s.immig[j].key = q})]

\* The callback of migrationReceived that tells of zero as soon as varCount
\* is used up, whatever the counter of the sender has come to
ImmigratedAnyCount(s, i) ==
    IF s.immig[i].varCount - 1 # 0
    THEN [s EXCEPT !.immig[i].varCount = @ - 1]
    ELSE [DecInprogress(s, s.immig[i].key) EXCEPT !.immig[i].varCount = 0]

\* The callback that VarDispatcher.Immigrate runs for one variable of the
\* batch i, up to enqueueQuery: varCount 0 marks the closure that has seen
\* both counters at zero
Immigrated(s, i) ==
    IF s.immig[i].varCount - 1 # 0
    THEN [s EXCEPT !.immig[i].varCount = @ - 1]
    ELSE IF Inprogress(s, s.immig[i].key) - 1 # 0
    THEN Applied(DecInprogress(s, s.immig[i].key), i)
    ELSE [DecInprogress(s, s.immig[i].key) EXCEPT !.immig[i].varCount = 0]

\* A dispatcher goroutine runs the callback for a variable of batch i
ImmigrateVar(i) ==
    /\ tt[Self].immig[i].varCount > 0
    /\ tt' = [tt EXCEPT ![Self] = Immigrated(tt[Self], i)]
    /\ led' = [led EXCEPT !.hist[tt[Self].immig[i].key[2]].zeros =
                 @ + (IF /\ Inprogress(tt[Self], tt[Self].immig[i].key) # 0
                         /\ tt[Self].immig[i].varCount = 1
                         /\ Inprogress(tt[Self], tt[Self].immig[i].key) = 1
                      THEN 1 ELSE 0)]
    /\ UNCHANGED <<store, obs, em, net, sts, vm, tc>>

\* tt.enqueueQuery(topologyTransmogrifierMsgExe(...)) of that callback
ImmigrateEnqueue(i) ==
    /\ tt[Self].immig[i].varCount = 0
    /\ Cardinality(tt[Self].exes) < MaxExes
    /\ tt' = [tt EXCEPT ![Self] = AddExe(Applied(tt[Self], i), "immigrated", 0, Nil)]
    /\ led' = [led EXCEPT !.hist[tt[Self].immig[i].key[2]].enq = @ + 1]
    /\ UNCHANGED <<store, obs, em, net, sts, vm, tc>>

\* The counter of the ledger entry q stands at zero
Zero(q) ==
    /\ q \in DOMAIN tt[Self].migrations
    /\ tt[Self].migrations[q] = 0

\* A batch accepted under the ledger entry q has variables yet to be applied
Applying(q) ==
    \E i \in 1..Len(tt[Self].immig) :
        tt[Self].immig[i].key = q /\ tt[Self].immig[i].varCount > 0

\* C7: whenever the counter of (version 2, Peer) is zero, exactly one
\* complete of Peer has been received and no accepted batch of Peer still
\* has a variable to apply
C7_ZeroMeansSupplied ==
    Zero(<<2, Peer>>) =>
        /\ led.hist[Peer].compl = 1
        /\ ~Applying(<<2, Peer>>)

\* C8: every time the counter of Peer comes to zero, one and only one path
\* has seen it: the handler of the complete, which ticks the live task or
\* finds no task, or the callback of the last variable, which enqueues one
\* tick or is about to. The transitions to zero are as many as the ticks,
\* the idle observations, the enqueued ticks and the closures about to
\* enqueue taken together.
C8_ZeroSeenOnce ==
    led.hist[Peer].zeros =
        led.hist[Peer].ticks + led.hist[Peer].idle + led.hist[Peer].enq
        + Cardinality({i \in 1..Len(tt[Self].immig) :
                          tt[Self].immig[i].varCount = 0})

\* The callback of the last variable has brought the counter to zero after
\* the complete was handled, and has enqueued its tick for the live task
C8_Witness ==
    /\ led.hist[Peer].compl >= 1
    /\ led.hist[Peer].zeros = 1
    /\ led.hist[Peer].enq = 1
    /\ tt[Self].task # Nil
    /\ \E e \in tt[Self].exes : e.kind = "immigrated"

\* C9: a scan that has ended sent its complete if and only if the
\* connection registered for Self was the one it had captured and the
\* emigrator was not stopped; and while a scan that lost its connection has
\* not been made up for by the complete of a later scan, the counter of
\* Peer at Self is not zero
C9_CompleteOnSameConnection ==
    /\ led.scan # Nil =>
          (led.scan[1].sent <=> (led.scan[1].same /\ ~led.scan[1].stop))
    /\ led.owed => ~Zero(<<2, Peer>>)


MigInit ==
    /\ tt = (Self :> MigNode(Self))
    /\ store = MigTopology
    /\ obs = [n \in Nodes |-> <<>>]
    /\ em = [NoEmigrator EXCEPT !.conn = 1, !.used = 1]
    /\ net = <<>>
    /\ led = NoLedger
    /\ sts = NoSubmitter
    /\ vm = <<>>
    /\ tc = NoChanges

MigNext ==
    \/ ClusterTick(Self)
    \/ ClusterObserved(Self)
    \/ ClusterRequest(Self, MigGoal)
    \/ ClusterInstalled(Self)
    \/ \E e \in tt[Self].exes : ClusterExe(Self, e)
    \/ NewEmigrator
    \/ StopAsync
    \/ SenderAdded
    \/ SenderRemoved
    \/ ServerLost
    \/ ServerEstablished
    \/ \E sc \in em.scans : SendBatch(sc)
    \/ \E sc \in em.scans : ScanDone(sc)
    \/ Deliver
    \/ \E i \in 1..Len(tt[Self].immig) : ImmigrateVar(i)
    \/ \E i \in 1..Len(tt[Self].immig) : ImmigrateEnqueue(i)

MigrationSpec == MigInit /\ [][MigNext]_vars

----------------------------------------------------------------------------
(* The submitter of a node during the topology change of the migration     *)
(* above. sts is the                                                       *)
(* SimpleTxnSubmitter of the client connections of Self, with the          *)
(* topologies that the connection manager has yet to hand to it (pub), the *)
(* versions of the transactions that are submitted and not yet decided     *)
(* (inflight), the next version at the moment migrateAwaitClientDrain went *)
(* on (drained), the versions submitted since (after), and what the        *)
(* emigrators of the other RMs have sent to Self (sent).                   *)

MaxBuffered == 1

\* configuration.Topology.IsBlank, of the topology the submitter holds
IsBlank(t) == t = Nil \/ t[1].cfg.version = 0

\* SimpleTxnSubmitter.SubmitTransaction of a transaction of version v
Submitted(x, v) ==
    [x EXCEPT !.inflight = @ \cup {v},
              !.after = IF x.drained # Nil THEN @ \cup {v} ELSE @]

\* SubmitClientTransaction that always takes the version of the topology
SubmitClientTransactionOwnVersion(x, bufferOnTopologyChange) ==
    IF IsBlank(x.topology) \/ (bufferOnTopologyChange /\ x.topology[1].next # Nil)
    THEN [x EXCEPT !.bufferedSubmissions = Append(@, bufferOnTopologyChange)]
    ELSE Submitted(x, x.topology[1].cfg.version)

\* SimpleTxnSubmitter.SubmitClientTransaction
SubmitClientTransaction(x, bufferOnTopologyChange) ==
    IF IsBlank(x.topology) \/ (bufferOnTopologyChange /\ x.topology[1].next # Nil)
    THEN [x EXCEPT !.bufferedSubmissions = Append(@, bufferOnTopologyChange)]
    ELSE Submitted(x, IF ~bufferOnTopologyChange /\ x.topology[1].next # Nil
                      THEN x.topology[1].next[1].cfg.version
                      ELSE x.topology[1].cfg.version)

\* for _, fun := range funcs { fun() }
RECURSIVE Resubmit(_, _)
Resubmit(x, funcs) ==
    IF funcs = <<>> THEN x
    ELSE Resubmit(SubmitClientTransaction(x, Head(funcs)), Tail(funcs))

\* SimpleTxnSubmitter.TopologyChange(topology, nil)
TopologyChange(x, topology) ==
    IF ~IsBlank(Some(topology)) /\ x.bufferedSubmissions # <<>>
    THEN Resubmit([x EXCEPT !.topology = Some(topology),
                            !.bufferedSubmissions = <<>>],
                  x.bufferedSubmissions)
    ELSE [x EXCEPT !.topology = Some(topology)]

\* migrateAwaitClientDrain.tick has returned task.nextState()
PastClientDrain(s) ==
    /\ s.task # Nil
    /\ s.task[1].kind = "migrate"
    /\ s.task[1].currentState \in
          {"migrateAwaitVarBarrier", "migrateAwaitImmigrations",
           "migrateAwaitNoPending"}

\* The submitter after a turn of the loop of Self from s to r, q0 being the
\* callbacks outstanding before the handler ran: installTopology has handed
\* r.active to the connection manager if there is one more callback; the
\* turn may be the one in which the client drain is over; the transaction
\* of the turn carries the version createTopologyTransaction gave it
TurnSeen(x, s, q0, r) ==
    [x EXCEPT
       !.pub = IF Len(r.installQ) > Len(q0) THEN Append(@, r.active[1]) ELSE @,
       !.drained = IF @ = Nil /\ ~PastClientDrain(s) /\ PastClientDrain(r)
                   THEN Some([active |-> r.active[1].cfg.version,
                              next |-> r.active[1].next[1].cfg.version])
                   ELSE @,
       !.inflight = IF r.lastTxn # Nil THEN @ \cup {r.lastTxn[1].topologyVersion}
                    ELSE @,
       !.after = IF r.lastTxn # Nil /\ (x.drained # Nil \/ PastClientDrain(r))
                 THEN @ \cup {r.lastTxn[1].topologyVersion} ELSE @]

\* One turn of the loop of Self, and what the submitter sees of it
SubTurn(s, q0, r, q) ==
    /\ Transact(Self, r, q)
    /\ sts' = TurnSeen(sts, s, q0, r)
    /\ UNCHANGED <<em, led, vm, tc>>

SubTick ==
    /\ ~tt[Self].terminated
    /\ tt[Self].oldTask # CurTaskId(tt[Self])
    /\ IF tt[Self].task = Nil
       THEN SubTurn(tt[Self], tt[Self].installQ,
                    Begin([tt[Self] EXCEPT !.oldTask = 0]), obs[Self])
       ELSE \E ch \in ClusterChoices(tt[Self]) :
              SubTurn(tt[Self], tt[Self].installQ,
                      Tick(Begin([tt[Self] EXCEPT !.oldTask = CurTaskId(tt[Self])]), ch),
                      obs[Self])
    /\ net' = net

SubObserved ==
    /\ CanReceive(tt[Self])
    /\ obs[Self] # <<>>
    /\ \E ch \in ClusterChoices(tt[Self]) :
          SubTurn(tt[Self], tt[Self].installQ,
                  SetActive(Begin(tt[Self]), Head(obs[Self]), ch), Tail(obs[Self]))
    /\ net' = net

SubRequest ==
    /\ CanReceive(tt[Self])
    /\ SubTurn(tt[Self], tt[Self].installQ,
               SelectGoal(Begin(tt[Self]), MigGoal), obs[Self])
    /\ net' = net

\* connectionManager.setTopology calls the callback of installTopology
\* after it has told its subscribers
SubInstalled ==
    /\ CanReceive(tt[Self])
    /\ tt[Self].installQ # <<>>
    /\ Len(sts.pub) < Len(tt[Self].installQ)
    /\ \E ch \in ClusterChoices(tt[Self]) :
          SubTurn(tt[Self], Tail(tt[Self].installQ),
                  ExeInstalled([Begin(tt[Self]) EXCEPT !.installQ = Tail(@)],
                               Head(tt[Self].installQ), ch),
                  obs[Self])
    /\ net' = net

SubExe(e) ==
    /\ CanReceive(tt[Self])
    /\ \E ch \in ClusterChoices(tt[Self]) :
          SubTurn(tt[Self], tt[Self].installQ,
                  RunExe([Begin(tt[Self]) EXCEPT !.exes = @ \ {e}], e, ch), obs[Self])
    /\ net' = net

\* The emigrator of Peer sends a batch of one variable before its complete
SubBatch ==
    /\ net = <<>>
    /\ Migrating(store)
    /\ sts.sent = {}
    /\ net' = <<Msg("migration", store.next[1].cfg.version, Peer, 1, 1)>>
    /\ sts' = [sts EXCEPT !.sent = @ \cup {<<"migration", Peer>>}]
    /\ UNCHANGED <<tt, store, obs, em, led, vm, tc>>

\* The emigrator of another RM sends its complete to Self
SubComplete(sender) ==
    /\ net = <<>>
    /\ Migrating(store)
    /\ <<"complete", sender>> \notin sts.sent
    /\ net' = <<Msg("complete", store.next[1].cfg.version, sender, 1, 0)>>
    /\ sts' = [sts EXCEPT !.sent = @ \cup {<<"complete", sender>>}]
    /\ UNCHANGED <<tt, store, obs, em, led, vm, tc>>

\* One turn of the loop of Self for the message at the head of net
SubDeliver ==
    /\ net # <<>>
    /\ CanReceive(tt[Self])
    /\ \E ch \in ClusterChoices(tt[Self]) :
          SubTurn(tt[Self], tt[Self].installQ,
                  HandleMsg(Begin(tt[Self]), Head(net), ch), obs[Self])
    /\ net' = Tail(net)

\* migrateAwaitImmigrations.tick of Peer, which has been supplied: its
\* transaction takes Peer out of next.pending
SubPeerSupplied ==
    /\ Migrating(store)
    /\ Peer \in DOMAIN store.next[1].pending
    /\ store' = [store EXCEPT
                   !.next = Some([store.next[1] EXCEPT
                                    !.pending = Restrict(@, DOMAIN @ \ {Peer})]),
                   !.dbVersion = @ + 1]
    /\ obs' = [obs EXCEPT ![Self] = Append(@, store')]
    /\ UNCHANGED <<tt, em, net, led, sts, vm, tc>>

\* A subscriber of the connection manager hands the topology to its
\* submitter
SubTopologyChange ==
    /\ sts.pub # <<>>
    /\ sts' = [TopologyChange(sts, Head(sts.pub)) EXCEPT !.pub = Tail(sts.pub)]
    /\ Len(sts'.bufferedSubmissions) <= MaxBuffered
    /\ UNCHANGED <<tt, store, obs, em, net, led, vm, tc>>

\* A client of Self submits a transaction
SubSubmit ==
    /\ \E b \in BOOLEAN : sts' = SubmitClientTransaction(sts, b)
    /\ Len(sts'.bufferedSubmissions) <= MaxBuffered
    /\ UNCHANGED <<tt, store, obs, em, net, led, vm, tc>>

\* A submitted transaction is decided
SubDecided ==
    /\ \E v \in sts.inflight : sts' = [sts EXCEPT !.inflight = @ \ {v}]
    /\ UNCHANGED <<tt, store, obs, em, net, led, vm, tc>>

SubInit ==
    /\ tt = (Self :> MigNode(Self))
    /\ store = MigTopology
    /\ obs = [n \in Nodes |-> <<>>]
    /\ em = NoEmigrator
    /\ net = <<>>
    /\ led = NoLedger
    /\ sts = [topology |-> Some(MigTopology), bufferedSubmissions |-> <<>>,
              pub |-> <<>>, inflight |-> {}, drained |-> Nil, after |-> {},
              sent |-> {}]
    /\ vm = <<>>
    /\ tc = NoChanges

SubNext ==
    \/ SubTick
    \/ SubObserved
    \/ SubRequest
    \/ SubInstalled
    \/ \E e \in tt[Self].exes : SubExe(e)
    \/ SubBatch
    \/ \E sender \in {Peer, Third} : SubComplete(sender)
    \/ \E i \in 1..Len(tt[Self].immig) : ImmigrateVar(i)
    \/ \E i \in 1..Len(tt[Self].immig) : ImmigrateEnqueue(i)
    \/ SubDeliver
    \/ SubPeerSupplied
    \/ SubTopologyChange
    \/ SubSubmit
    \/ SubDecided

SubmitSpec == SubInit /\ [][SubNext]_vars

\* C15: a write of the topology variable made while the task of Self is
\* installCompletion is a write of the configuration of next, without a
\* next, of a version above the one it replaces, made when next had neither
\* pendingInstall nor pending and had the version of the goal; and no other
\* write takes next away.
C15_Step ==
    (store' # store /\ (TaskKind(tt'[Self]) = "installCompletion" \/ store'.next = Nil))
    => /\ store.next # Nil
       /\ TaskKind(tt'[Self]) = "installCompletion"
       /\ store' = [store EXCEPT !.cfg = store.next[1].cfg, !.next = Nil,
                                 !.dbVersion = store.dbVersion + 1]
       /\ store'.cfg.version > store.cfg.version
       /\ Len(store.next[1].pendingInstall) = 0
       /\ DOMAIN store.next[1].pending = {}
       /\ store.next[1].cfg.version = GoalVersion(tt'[Self].task[1].config)

C15_CompletionWrite == [][C15_Step]_vars

\* installCompletion has written: the topology variable has version 2 and
\* no next, and Self, still in installCompletion, has yet to observe it
C15_Witness ==
    /\ store.next = Nil
    /\ store.cfg.version = 2
    /\ TaskKind(tt[Self]) = "installCompletion"
    /\ tt[Self].active[1].next # Nil

\* Self is in migrateAwaitImmigrations and still in next.pending
AwaitingImmigrations(s) ==
    /\ CanReceive(s)
    /\ TaskKind(s) = "migrate"
    /\ s.task[1].currentState = "migrateAwaitImmigrations"
    /\ Self \in DOMAIN s.active[1].next[1].pending

\* The senders of the next version whose counter at s is zero
C14_Zero(s) ==
    {n \in {Peer, Third} :
        /\ <<s.active[1].next[1].cfg.version, n>> \in DOMAIN s.migrations
        /\ s.migrations[<<s.active[1].next[1].cfg.version, n>>] = 0}

\* The rms of the active configuration less F, less one for Self in it
C14_MaxSuppliers(s) ==
    (Cardinality({i \in 1..Len(s.active[1].cfg.rms) :
                     s.active[1].cfg.rms[i] # RMIdEmpty}) - s.active[1].cfg.f)
       - (IF s.host \in SeqToSet(s.active[1].cfg.hosts) THEN 1 ELSE 0)

\* C14: whatever migrateAwaitImmigrations.tick writes for pending[Self], the
\* suppliers it records are RMs of the active (old) configuration, are those
\* recorded before or senders whose counter is zero, and are at most
\* maxSuppliers; and it takes the entry of Self out only when maxSuppliers
\* such senders have been credited.
C14_CreditedSuppliers ==
    AwaitingImmigrations(tt[Self]) =>
        \A ch \in ClusterChoices(tt[Self]) :
            LET r == MigrateAwaitImmigrationsTick(Begin(tt[Self]), ch)
                old == tt[Self].active[1].next[1].pending[Self].suppliers
                rmsOld == SeqToSet(tt[Self].active[1].cfg.rms) \ {RMIdEmpty}
            IN  r.lastTxn # Nil =>
                  IF Self \in DOMAIN r.lastTxn[1].write[1].next[1].pending
                  THEN /\ r.lastTxn[1].write[1].next[1].pending[Self].suppliers
                             \subseteq (old \cup C14_Zero(tt[Self])) \cap rmsOld
                       /\ Cardinality(
                             r.lastTxn[1].write[1].next[1].pending[Self].suppliers)
                             <= C14_MaxSuppliers(tt[Self])
                  ELSE \E C \in SUBSET (C14_Zero(tt[Self]) \cap rmsOld) :
                          /\ old \subseteq rmsOld
                          /\ Cardinality(old \cup C) = C14_MaxSuppliers(tt[Self])

\* Self, with Third recorded as a supplier, credits Peer once the batch of
\* Peer has been applied, and takes its entry out of next.pending
C14_Witness ==
    /\ AwaitingImmigrations(tt[Self])
    /\ tt[Self].active[1].next[1].pending[Self].suppliers = {Third}
    /\ C14_Zero(tt[Self]) = {Peer, Third}
    /\ \E ch \in ClusterChoices(tt[Self]) :
          LET r == MigrateAwaitImmigrationsTick(Begin(tt[Self]), ch)
          IN  /\ r.lastTxn # Nil
              /\ Self \notin DOMAIN r.lastTxn[1].write[1].next[1].pending

\* C10: once migrateAwaitClientDrain has gone on at Self, no transaction
\* that can still commit carries a version below active.version, and every
\* transaction submitted since, by a client through the submitter or by the
\* task through createTopologyTransaction, carries at least the version of
\* active.next as it was then
C10_DrainedVersions ==
    sts.drained # Nil =>
        /\ \A v \in sts.inflight : v >= sts.drained[1].active
        /\ \A v \in sts.after : v >= sts.drained[1].next

\* After the drain transactions have been submitted, one is still to be
\* decided, and the change has completed since
C10_Witness ==
    /\ sts.drained # Nil
    /\ sts.after # {}
    /\ sts.inflight # {}
    /\ tt[Self].active[1].next = Nil
    /\ tt[Self].active[1].cfg.version = 2

----------------------------------------------------------------------------
(* The var managers of a node and the topology changes that its connection *)
(* manager hands to them. tc.changes are the TopologyChange objects in the *)
(* order of SetTopology; the connection manager has handled the first      *)
(* tc.handled of them. A var manager runs on its own executor: exe holds   *)
(* the closures of TopologyChanged that it has still to run.               *)

MaxManagers == 2
MaxVarIds == 3
MaxChanges == 2

Managers == 1..MaxManagers
VarIds == 1..MaxVarIds

\* VarDispatcher.withVarManager: the var manager of the variable uuid
ManagerOf(uuid) == (uuid % MaxManagers) + 1

\* TopologyChangeSubscriberType, the two kinds whose subscribers are here
Kinds == {"VarSubscriber", "ConnectionManagerSubscriber"}

\* What a var manager asks of a topology: NextBarrierReached1(rmId) and
\* NextBarrierReached2(rmId)
TcTopologies ==
    {t \in [reached1 : BOOLEAN, reached2 : BOOLEAN] : t.reached2 => t.reached1}

\* A TopologyChange for the topology, with callbacks for some kinds
NewChange(topology, callbacks) ==
    [topology |-> topology, callbacks |-> callbacks, count |-> 0,
     adds |-> [k \in Kinds |-> 0], dones |-> [k \in Kinds |-> 0],
     fired |-> 0, notified |-> {}]

\* TopologyChange.AddOne
AddOne(c, kind) == [c EXCEPT !.count = @ + 1, !.adds[kind] = @ + 1]

\* TopologyChange.Done: the callback of the change is fired when the
\* counter is back at zero
Done(c, kind) ==
    [c EXCEPT !.count = @ - 1, !.dones[kind] = @ + 1,
              !.fired = IF c.count - 1 = 0 THEN @ + 1 ELSE @]

\* TopologyChange.HasCallbackFor
HasCallbackFor(c, kind) == kind \in c.callbacks

\* A var manager after NewVarManager, on a store without variables
NewVarManager ==
    [active |-> {}, st |-> [v \in VarIds |-> "idle"], db |-> {},
     topology |-> Nil, rollAllowed |-> TRUE, onDisk |-> 0, exe |-> <<>>,
     panicked |-> FALSE, doneFor |-> [i \in 1..MaxChanges |-> 0],
     early |-> FALSE]

\* Var.isOnDisk and Var.isIdle, of a variable in the state st
IsOnDisk(st) == st \in {"clean", "idle"}
IsIdle(st) == st = "idle"

\* A var manager x together with the changes cs
Both(x, cs) == [vm |-> x, changes |-> cs]

\* onDisk.Done(VarSubscriber) or tc.Done(VarSubscriber) for the change i;
\* armed tells the Done of a barrier from the Done of a change that needs
\* none, and early keeps whether a barrier was ever done for while an
\* active variable was not on disk
VarDone(x, cs, i, armed) ==
    Both([x EXCEPT !.doneFor[i] = @ + 1,
                   !.early = @ \/ (armed /\ \E v \in x.active : ~IsOnDisk(x.st[v]))],
         [cs EXCEPT ![i] = Done(@, "VarSubscriber")])

\* VarManager.checkAllDisk
CheckAllDisk(x, cs) ==
    IF x.onDisk # 0
    THEN IF \E v \in x.active : ~IsOnDisk(x.st[v])
         THEN Both(x, cs)
         ELSE VarDone([x EXCEPT !.onDisk = 0, !.rollAllowed = FALSE], cs,
                      x.onDisk, TRUE)
    ELSE Both(x, cs)

\* The closure of TopologyChanged from vm.Topology = topology on
TopologyInstalled(p, i) ==
    IF /\ p.changes[i].topology.reached1
       /\ ~p.changes[i].topology.reached2
       /\ HasCallbackFor(p.changes[i], "VarSubscriber")
    THEN CheckAllDisk([p.vm EXCEPT !.topology = Some(p.changes[i].topology),
                                   !.rollAllowed = ~p.changes[i].topology.reached2,
                                   !.onDisk = i],
                      p.changes)
    ELSE VarDone([p.vm EXCEPT !.topology = Some(p.changes[i].topology),
                              !.rollAllowed = ~p.changes[i].topology.reached2],
                 p.changes, i, FALSE)

\* The closure that VarManager.TopologyChanged enqueues, for the change i
TopologyChangedRun(x, cs, i) ==
    TopologyInstalled(IF x.onDisk # 0
                      THEN VarDone([x EXCEPT !.onDisk = 0], cs, x.onDisk, TRUE)
                      ELSE Both(x, cs),
                      i)

\* VarManager.SetInactive
SetInactive(x, v) ==
    IF v \notin x.active THEN [x EXCEPT !.panicked = TRUE]
    ELSE [x EXCEPT !.active = @ \ {v}]

\* VarManager.find that does not keep the variable it has loaded
FindNotKept(x, uuid) ==
    IF uuid \in x.active THEN [vm |-> x, err |-> ""]
    ELSE IF uuid \notin x.db THEN [vm |-> x, err |-> "NotFound"]
    ELSE [vm |-> x, err |-> ""]

\* VarManager.find
Find(x, uuid) ==
    IF uuid \in x.active THEN [vm |-> x, err |-> ""]
    ELSE IF uuid \notin x.db THEN [vm |-> x, err |-> "NotFound"]
    ELSE [vm |-> [x EXCEPT !.active = @ \cup {uuid}], err |-> ""]

\* fun(v, nil): the variable goes to the state effect, if any; it has been
\* written to the store by the time it is on disk; a variable that has
\* become idle tells its VarLifecycle
Fun(x, uuid, effect) ==
    IF effect = "none" THEN
        IF IsIdle(x.st[uuid]) THEN SetInactive(x, uuid) ELSE x
    ELSE IF IsIdle(effect)
    THEN SetInactive([x EXCEPT !.st[uuid] = effect,
                               !.db = IF x.st[uuid] = "idle" THEN @
                                      ELSE @ \cup {uuid}], uuid)
    ELSE [x EXCEPT !.st[uuid] = effect,
                   !.db = IF IsOnDisk(effect) THEN @ \cup {uuid} ELSE @]

\* VarManager.ApplyToVar after fun(v, nil)
Applied2(x, cs, uuid) ==
    IF x.panicked THEN Both(x, cs)
    ELSE IF uuid \notin x.active /\ ~IsIdle(x.st[uuid])
    THEN Both([x EXCEPT !.panicked = TRUE], cs)
    ELSE CheckAllDisk(x, cs)

\* VarManager.ApplyToVar
ApplyToVar(x, cs, effect, createIfMissing, uuid) ==
    IF Find(x, uuid).err = "NotFound" /\ createIfMissing
    THEN Applied2(Fun([x EXCEPT !.active = @ \cup {uuid}], uuid, effect), cs, uuid)
    ELSE IF Find(x, uuid).err # "" THEN Both(x, cs)
    ELSE Applied2(Fun(Find(x, uuid).vm, uuid, effect), cs, uuid)

\* ConnectionManager.SetTopology that does not count itself in
SetTopologyUncounted(c) == c

\* ConnectionManager.SetTopology before the enqueue
SetTopology(c) == AddOne(c, "ConnectionManagerSubscriber")

\* The transmogrifier gives a topology change to the connection manager
VmSetTopology ==
    /\ Len(tc.changes) < MaxChanges
    /\ \E t \in TcTopologies, cb \in SUBSET {"VarSubscriber"} :
          tc' = [tc EXCEPT !.changes = Append(@, SetTopology(NewChange(t, cb)))]
    /\ UNCHANGED <<tt, store, obs, em, net, led, sts, vm>>

\* ConnectionManager.setTopology, topologySubscribers.TopologyChanged: the
\* var manager m is told, VarManager.TopologyChanged up to the enqueue
VmNotify(m) ==
    /\ tc.handled < Len(tc.changes)
    /\ m \notin tc.changes[tc.handled + 1].notified
    /\ tc' = [tc EXCEPT !.changes[tc.handled + 1] =
                [AddOne(@, "VarSubscriber") EXCEPT !.notified = @ \cup {m}]]
    /\ vm' = [vm EXCEPT ![m].exe = Append(@, tc.handled + 1)]
    /\ UNCHANGED <<tt, store, obs, em, net, led, sts>>

\* ConnectionManager.setTopology after the subscribers: tc.Done
VmHandled ==
    /\ tc.handled < Len(tc.changes)
    /\ tc.changes[tc.handled + 1].notified = Managers
    /\ tc' = [tc EXCEPT !.changes[tc.handled + 1] =
                          Done(@, "ConnectionManagerSubscriber"),
                        !.handled = @ + 1]
    /\ UNCHANGED <<tt, store, obs, em, net, led, sts, vm>>

\* The executor of the var manager m runs the closure of TopologyChanged
VmRun(m) ==
    /\ ~vm[m].panicked
    /\ vm[m].exe # <<>>
    /\ vm' = [vm EXCEPT ![m] =
                TopologyChangedRun([vm[m] EXCEPT !.exe = Tail(@)], tc.changes,
                                   Head(vm[m].exe)).vm]
    /\ tc' = [tc EXCEPT !.changes =
                TopologyChangedRun([vm[m] EXCEPT !.exe = Tail(@)], tc.changes,
                                   Head(vm[m].exe)).changes]
    /\ UNCHANGED <<tt, store, obs, em, net, led, sts>>

\* The executor of the var manager m runs the closure of
\* VarDispatcher.ApplyToVar
VmApplyToVar(m) ==
    /\ ~vm[m].panicked
    /\ \E uuid \in {v \in VarIds : ManagerOf(v) = m}, createIfMissing \in BOOLEAN,
          effect \in {"none", "dirty", "clean", "idle"} :
          /\ vm' = [vm EXCEPT ![m] =
                      ApplyToVar(vm[m], tc.changes, effect, createIfMissing, uuid).vm]
          /\ tc' = [tc EXCEPT !.changes =
                      ApplyToVar(vm[m], tc.changes, effect, createIfMissing,
                                 uuid).changes]
    /\ UNCHANGED <<tt, store, obs, em, net, led, sts>>

\* C11: the Done(VarSubscriber) of a barrier that a var manager has armed
\* is called at most once, and never while a variable of the active set of
\* that manager is not on disk
C11_BarrierDoneOnDisk ==
    \A m \in Managers :
        /\ ~vm[m].early
        /\ \A i \in 1..MaxChanges : vm[m].doneFor[i] <= 1

\* C12: of a topology change given to SetTopology, no kind has more Done
\* than AddOne, no var manager calls Done twice, the callback is fired at
\* most once, and when it has been fired the connection manager has told
\* every var manager and every AddOne of every kind has had its Done
C12_CountedAcknowledgement ==
    \A i \in 1..Len(tc.changes) :
        /\ \A k \in Kinds : tc.changes[i].dones[k] <= tc.changes[i].adds[k]
        /\ \A m \in Managers : vm[m].doneFor[i] <= 1
        /\ tc.changes[i].fired <= 1
        /\ tc.changes[i].fired > 0 =>
              /\ tc.changes[i].notified = Managers
              /\ i <= tc.handled
              /\ \A m \in Managers : vm[m].doneFor[i] = 1
              /\ \A k \in Kinds : tc.changes[i].dones[k] = tc.changes[i].adds[k]

\* The callback of a change with a barrier has been fired: a var manager
\* had armed the barrier and was done after the connection manager was
C12_Witness ==
    \E i \in 1..Len(tc.changes) :
        /\ tc.changes[i].fired = 1
        /\ tc.changes[i].topology.reached1 /\ ~tc.changes[i].topology.reached2
        /\ HasCallbackFor(tc.changes[i], "VarSubscriber")
        /\ tc.changes[i].adds["VarSubscriber"] = MaxManagers
        /\ \E m \in Managers : vm[m].active # {} /\ ~vm[m].rollAllowed

VmInit ==
    /\ tt = <<>>
    /\ store = Nil
    /\ obs = <<>>
    /\ em = NoEmigrator
    /\ net = <<>>
    /\ led = NoLedger
    /\ sts = NoSubmitter
    /\ vm = [m \in Managers |-> NewVarManager]
    /\ tc = NoChanges

VmNext ==
    \/ VmSetTopology
    \/ \E m \in Managers : VmNotify(m)
    \/ VmHandled
    \/ \E m \in Managers : VmRun(m)
    \/ \E m \in Managers : VmApplyToVar(m)

VmSpec == VmInit /\ [][VmNext]_vars

----------------------------------------------------------------------------
(* calculateTargetTopology over a sequence of reconfigurations. Self is    *)
(* settled on a configuration; an operator asks for the hosts of the next  *)
(* version, the target is calculated from the connections to those hosts,  *)
(* and the change completes with the configuration of the target. A host   *)
(* other than that of Self may be wiped, which gives it a new RMId; a host *)
(* that was dropped may come back with or without having been wiped.       *)

MaxHosts == 3
MaxTargetVersion == 3

TargetHosts == {HostOf(rm) : rm \in 1..MaxHosts}

\* The connection to the host h, wiped or not
TargetConn(h, wiped) ==
    Conn(h, IF wiped THEN (h - HostOf(0)) + MaxHosts ELSE h - HostOf(0),
         IF h = HostOf(Self) THEN Nil ELSE Some(1), 0)

\* Self, settled on cfg and connected through conns
TargetNode(cfg, conns) ==
    [InitNode(Self, cfg, Nil)
       EXCEPT !.active = Some(Topology(cfg, Nil, cfg.version, Some(1))),
              !.task = Nil, !.oldTask = 0,
              !.activeConnections = conns, !.hostToConnection = conns,
              !.localEstablished = FALSE]

\* The lists of hosts an operator may ask for: the host of Self and any of
\* the others, in the order of their names
TargetGoalHosts ==
    {SortedSeq(H \cup {HostOf(Self)}) : H \in SUBSET TargetHosts}

\* The actor of Self in installTargetOld.tick for the goal of these hosts
TargetTask(s, hosts) ==
    [s EXCEPT !.task = Some(Task(1, "installTargetOld",
                  GoalOf(Conf(s.active[1].cfg.clusterId,
                              s.active[1].cfg.version + 1, hosts, 0, <<>>, {}))))]

\* The orders in which calculateTargetTopology may range over its maps
TargetChoices(s) == {ch \in ChoicesFor(s, FALSE) : ch.outcome = "commit"}

\* The host h is wiped and starts again with a new RMId
TargetWipe(h) ==
    /\ h # HostOf(Self)
    /\ TargetConn(h, FALSE) \in tt[Self].hostToConnection
    /\ tt' = [tt EXCEPT ![Self] =
                [@ EXCEPT !.hostToConnection =
                             (@ \ {TargetConn(h, FALSE)}) \cup {TargetConn(h, TRUE)},
                          !.activeConnections =
                             (@ \ {TargetConn(h, FALSE)}) \cup {TargetConn(h, TRUE)}]]
    /\ UNCHANGED <<store, obs, em, net, led, sts, vm, tc>>

\* The change to the target c has completed: installCompletion has written
\* the configuration of next, and Self has made it its active topology
TargetCompleted(c) ==
    /\ c.target # Nil
    /\ tt' = [tt EXCEPT ![Self] =
                TargetNode(c.target[1].next[1].cfg, tt[Self].hostToConnection)]
    /\ UNCHANGED <<store, obs, em, net, led, sts, vm, tc>>

\* A reconfiguration to the hosts
TargetChange(hosts) ==
    /\ tt[Self].active[1].cfg.version < MaxTargetVersion
    /\ \E ch \in TargetChoices(TargetTask(tt[Self], hosts)) :
          TargetCompleted(CalculateTargetTopology(TargetTask(tt[Self], hosts), ch))

ReconfInit ==
    /\ \E H \in SUBSET TargetHosts :
          tt = (Self :> TargetNode(
                  Conf("c1", 1, SortedSeq(H \cup {HostOf(Self)}), 0,
                       [i \in 1..Cardinality(H \cup {HostOf(Self)}) |->
                          SortedSeq(H \cup {HostOf(Self)})[i] - HostOf(0)], {}),
                  {TargetConn(h, FALSE) : h \in TargetHosts}))
    /\ store = Nil
    /\ obs = <<>>
    /\ em = NoEmigrator
    /\ net = <<>>
    /\ led = NoLedger
    /\ sts = NoSubmitter
    /\ vm = <<>>
    /\ tc = NoChanges

ReconfNext ==
    \/ \E h \in TargetHosts : TargetWipe(h)
    \/ \E hosts \in TargetGoalHosts : TargetChange(hosts)

ReconfSpec == ReconfInit /\ [][ReconfNext]_vars

\* The targets that calculateTargetTopology can give in the state of Self
Targets ==
    UNION {{CalculateTargetTopology(TargetTask(tt[Self], hosts), ch).target :
               ch \in TargetChoices(TargetTask(tt[Self], hosts))} :
           hosts \in TargetGoalHosts}
        \ {Nil}

\* C13: in every target that calculateTargetTopology gives, rmsRemoved of
\* next holds rmsRemoved of the active topology and the lost RMIds, and no
\* RMId of rmsRemoved of next is in the RM list of next
C13_RemovedStaysRemoved ==
    \A t \in Targets :
        /\ tt[Self].active[1].cfg.rmsRemoved \cup SeqToSet(t[1].next[1].lostRMIds)
              \subseteq t[1].next[1].cfg.rmsRemoved
        /\ SeqToSet(t[1].next[1].cfg.rms) \cap t[1].next[1].cfg.rmsRemoved = {}

\* C20: in every target that calculateTargetTopology gives, a surviving RM
\* has in next.rms the index it has in active.rms, and the list is longer
\* than that of active only if no slot of it is empty
C20_SurvivorsKeepTheirSlots ==
    \A t \in Targets :
        /\ \A i \in 1..Len(tt[Self].active[1].cfg.rms) :
              tt[Self].active[1].cfg.rms[i] \in SeqToSet(t[1].next[1].survivingRMIds)
                 => /\ i <= Len(t[1].next[1].cfg.rms)
                    /\ t[1].next[1].cfg.rms[i] = tt[Self].active[1].cfg.rms[i]
        /\ Len(t[1].next[1].cfg.rms) > Len(tt[Self].active[1].cfg.rms)
              => RMIdEmpty \notin SeqToSet(t[1].next[1].cfg.rms)

----------------------------------------------------------------------------
(* A fourth host joins a settled cluster of three RMs with F = 1. The      *)
(* actors of RM1 and of the new RM run the loop above, each with           *)
(* connections to all the others; of RM2 and RM3 the connections, the      *)
(* acceptors that vote and the emigrators are there, their actors are not  *)
(* followed. The new RM starts from NewTopologyTransmogrifier with the     *)
(* goal as its configuration; RM1 learns the goal from a sender. store is  *)
(* the topology variable; a committed write reaches the subscribers of the *)
(* RMs that the transaction names as active or passive. No RM has a        *)
(* variable to hand over, so a scan of an emigrator sends its complete and *)
(* nothing else; net is what is on its way to the new RM. led.sent holds   *)
(* the RMs whose scan has ended, led.asked the RMs that a sender has told  *)
(* the goal, led.resubmits the number of transactions that were to be      *)
(* resubmitted.                                                            *)

MaxResubmits == 1
MaxAddInstallQ == 8
MaxAddExes == 3

New == 4
Old == {Self, Peer, Third}
AddNodes == Old \cup {New}

\* The RMs whose actor is followed step by step; of the others only the
\* acceptor, which votes, and the emigrator are seen
AddActors == {Self, New}

AddCfg == Conf("c1", 1, <<HostOf(Self), HostOf(Peer), HostOf(Third)>>, 1,
               <<Self, Peer, Third>>, {})

AddGoal ==
    GoalOf(Conf("c1", 2, <<HostOf(Self), HostOf(Peer), HostOf(Third), HostOf(New)>>,
                1, <<>>, {}))

AddTopology == Topology(AddCfg, Nil, 1, Some(1))

\* The connections of n: the RMs of the cluster have its root, the new RM
\* has none
AddConns(n) ==
    {Conn(HostOf(m), m, IF m = n \/ m = New THEN Nil ELSE Some(1), 0) :
        m \in AddNodes}

\* An RM of the cluster, settled on version 1
AddSettled(rm) ==
    [InitNode(rm, AddCfg,
              Some([BlankTopology("c1") EXCEPT !.next = Some(GoalOf(AddCfg))]))
       EXCEPT !.active = Some(AddTopology), !.task = Nil, !.oldTask = 0,
              !.activeConnections = AddConns(rm), !.hostToConnection = AddConns(rm),
              !.localEstablished = FALSE]

\* The new RM, started with the goal and an empty disk
AddJoiner ==
    [InitNode(New, AddGoal.cfg, Nil)
       EXCEPT !.activeConnections = AddConns(New),
              !.hostToConnection = AddConns(New)]

\* What a handler can meet: as on any healthy node, and a transaction is to
\* be resubmitted only MaxResubmits times in all
AddChoices(s) ==
    {ch \in ClusterChoices(s) :
        /\ ch.outcome = "resubmit" => led.resubmits < MaxResubmits
        /\ ch.rootOutcome = "commit"}

\* One turn of the loop of n that leaves the actor as r and the queue of
\* its subscriber as q. A handler that would leave more callbacks
\* outstanding than the bounds allow is not taken. A transaction that reads
\* nothing is one on the local store of n, and the subscriber of n observes
\* what it wrote.
AddTransact(n, r, q) ==
    /\ Len(r.installQ) <= MaxAddInstallQ
    /\ Cardinality(r.exes) <= MaxAddExes
    /\ tt' = [tt EXCEPT ![n] = Finish(r)]
    /\ IF r.lastTxn = Nil
       THEN /\ store' = store
            /\ obs' = [obs EXCEPT ![n] = q]
            /\ led' = led
       ELSE IF r.lastTxn[1].read = Nil
       THEN /\ r.lastOutcome = "commit"
            /\ store' = store
            /\ obs' = [obs EXCEPT ![n] = IF r.lastTxn[1].write = Nil THEN q
                                         ELSE Append(q, r.lastTxn[1].write[1])]
            /\ led' = led
       ELSE IF r.lastOutcome = "commit"
       THEN /\ r.lastTxn[1].read[1].dbVersion = store.dbVersion
            /\ store' = [r.lastTxn[1].write[1] EXCEPT !.dbVersion = store.dbVersion + 1]
            /\ obs' = [m \in AddActors |->
                         IF m \in SeqToSet(r.lastTxn[1].active)
                                     \cup SeqToSet(r.lastTxn[1].passive)
                         THEN Append(IF m = n THEN q ELSE obs[m],
                                     [r.lastTxn[1].write[1] EXCEPT
                                         !.dbVersion = store.dbVersion + 1])
                         ELSE IF m = n THEN q ELSE obs[m]]
            /\ led' = led
       ELSE /\ r.lastOutcome = "badRead" =>
                  r.lastTxn[1].read[1].dbVersion # store.dbVersion
            /\ store' = store
            /\ obs' = [obs EXCEPT ![n] = q]
            /\ led' = IF r.lastOutcome = "resubmit"
                      THEN [led EXCEPT !.resubmits = @ + 1] ELSE led

\* actorLoop, oldTask != tt.task
AddTick(n) ==
    /\ ~tt[n].terminated
    /\ tt[n].oldTask # CurTaskId(tt[n])
    /\ IF tt[n].task = Nil
       THEN AddTransact(n, Begin([tt[n] EXCEPT !.oldTask = 0]), obs[n])
       ELSE \E ch \in AddChoices(tt[n]) :
              AddTransact(n, Tick(Begin([tt[n] EXCEPT !.oldTask = CurTaskId(tt[n])]),
                                  ch),
                          obs[n])
    /\ UNCHANGED <<em, net, sts, vm, tc>>

\* actorLoop, topologyTransmogrifierMsgTopologyObserved
AddObserved(n) ==
    /\ CanReceive(tt[n])
    /\ obs[n] # <<>>
    /\ \E ch \in AddChoices(tt[n]) :
          AddTransact(n, SetActive(Begin(tt[n]), Head(obs[n]), ch), Tail(obs[n]))
    /\ UNCHANGED <<em, net, sts, vm, tc>>

\* actorLoop, topologyTransmogrifierMsgRequestConfigChange from the sender
\* of a task of another RM
AddRequest(n) ==
    /\ CanReceive(tt[n])
    /\ n \notin led.asked
    /\ \E m \in AddActors \ {n} : AddGoal \in tt[m].senders
    /\ tt' = [tt EXCEPT ![n] = Finish(SelectGoal(Begin(tt[n]), AddGoal))]
    /\ led' = [led EXCEPT !.asked = @ \cup {n}]
    /\ UNCHANGED <<store, obs, em, net, sts, vm, tc>>

\* actorLoop, topologyTransmogrifierMsgExe: installed
AddInstalled(n) ==
    /\ CanReceive(tt[n])
    /\ tt[n].installQ # <<>>
    /\ \E ch \in AddChoices(tt[n]) :
          AddTransact(n, ExeInstalled([Begin(tt[n]) EXCEPT !.installQ = Tail(@)],
                                      Head(tt[n].installQ), ch),
                      obs[n])
    /\ UNCHANGED <<em, net, sts, vm, tc>>

\* actorLoop, topologyTransmogrifierMsgExe: the other closures
AddRunExe(n, e) ==
    /\ CanReceive(tt[n])
    /\ \E ch \in AddChoices(tt[n]) :
          AddTransact(n, RunExe([Begin(tt[n]) EXCEPT !.exes = @ \ {e}], e, ch),
                      obs[n])
    /\ UNCHANGED <<em, net, sts, vm, tc>>

\* The scan of the emigrator of n ends: its complete goes to the new RM
AddScanDone(n) ==
    /\ n \notin led.sent
    /\ \E e \in tt[n].emigrators :
          /\ ~e.stop
          /\ New \in e.targets
          /\ net' = Append(net, Msg("complete", e.version, n, 1, 0))
    /\ led' = [led EXCEPT !.sent = @ \cup {n}]
    /\ UNCHANGED <<tt, store, obs, em, sts, vm, tc>>

\* The same for an RM whose actor is not followed: it has its emigrator
\* while the topology variable has the new RM in next.pending
AddPeerScanDone(n) ==
    /\ n \notin led.sent
    /\ Migrating(store)
    /\ New \in DOMAIN store.next[1].pending
    /\ net' = Append(net, Msg("complete", store.next[1].cfg.version, n, 1, 0))
    /\ led' = [led EXCEPT !.sent = @ \cup {n}]
    /\ UNCHANGED <<tt, store, obs, em, sts, vm, tc>>

\* actorLoop of the new RM, topologyTransmogrifierMsgMigrationComplete
AddDeliver ==
    /\ net # <<>>
    /\ CanReceive(tt[New])
    /\ \E ch \in AddChoices(tt[New]) :
          AddTransact(New, HandleMsg(Begin(tt[New]), Head(net), ch), obs[New])
    /\ net' = Tail(net)
    /\ UNCHANGED <<em, sts, vm, tc>>

AddInit ==
    /\ tt = [n \in AddActors |-> IF n = New THEN AddJoiner ELSE AddSettled(n)]
    /\ store = AddTopology
    /\ obs = [n \in AddActors |-> <<>>]
    /\ em = NoEmigrator
    /\ net = <<>>
    /\ led = [sent |-> {}, asked |-> {}, resubmits |-> 0]
    /\ sts = NoSubmitter
    /\ vm = <<>>
    /\ tc = NoChanges

AddNext ==
    \/ \E n \in AddActors : AddTick(n)
    \/ \E n \in AddActors : AddObserved(n)
    \/ \E n \in AddActors \ {New} : AddRequest(n)
    \/ \E n \in AddActors : AddInstalled(n)
    \/ \E n \in AddActors : \E e \in tt[n].exes : AddRunExe(n, e)
    \/ \E n \in AddActors \ {New} : AddScanDone(n)
    \/ \E n \in Old \ AddActors : AddPeerScanDone(n)
    \/ AddDeliver

\* The turn of n that leaves the actor as r is one that AddTransact takes
AddFits(r) ==
    /\ Len(r.installQ) <= MaxAddInstallQ
    /\ Cardinality(r.exes) <= MaxAddExes
    /\ r.lastTxn # Nil /\ r.lastTxn[1].read = Nil => r.lastOutcome = "commit"
    /\ r.lastTxn # Nil /\ r.lastTxn[1].read # Nil =>
          /\ r.lastOutcome = "commit" =>
                r.lastTxn[1].read[1].dbVersion = store.dbVersion
          /\ r.lastOutcome = "badRead" =>
                r.lastTxn[1].read[1].dbVersion # store.dbVersion

\* The loop of n has a tick to make, a topology to observe, an installed
\* callback to run, another closure to run, a complete to take
TickReady(n) ==
    /\ ~tt[n].terminated
    /\ tt[n].oldTask # CurTaskId(tt[n])
    /\ tt[n].task # Nil =>
          \E ch \in AddChoices(tt[n]) :
              AddFits(Tick(Begin([tt[n] EXCEPT !.oldTask = CurTaskId(tt[n])]), ch))

ObservedReady(n) ==
    /\ CanReceive(tt[n])
    /\ obs[n] # <<>>
    /\ \E ch \in AddChoices(tt[n]) :
          AddFits(SetActive(Begin(tt[n]), Head(obs[n]), ch))

InstalledReady(n) ==
    /\ CanReceive(tt[n])
    /\ tt[n].installQ # <<>>
    /\ \E ch \in AddChoices(tt[n]) :
          AddFits(ExeInstalled([Begin(tt[n]) EXCEPT !.installQ = Tail(@)],
                               Head(tt[n].installQ), ch))

RunExeReady(n) ==
    /\ CanReceive(tt[n])
    /\ \E e \in tt[n].exes : \E ch \in AddChoices(tt[n]) :
          AddFits(RunExe([Begin(tt[n]) EXCEPT !.exes = @ \ {e}], e, ch))

DeliverReady ==
    /\ net # <<>>
    /\ CanReceive(tt[New])
    /\ \E ch \in AddChoices(tt[New]) :
          AddFits(HandleMsg(Begin(tt[New]), Head(net), ch))

\* A turn of the loop of n, and the loop of n has a turn to take
AddLoop(n) ==
    \/ AddTick(n)
    \/ AddObserved(n)
    \/ AddInstalled(n)
    \/ \E e \in tt[n].exes : AddRunExe(n, e)
    \/ n = New /\ AddDeliver

LoopReady(n) ==
    \/ TickReady(n)
    \/ ObservedReady(n)
    \/ InstalledReady(n)
    \/ RunExeReady(n)
    \/ n = New /\ DeliverReady

\* Every goroutine gets its turn. The loop of an actor that stays with a
\* turn to take takes one in the end (weak fairness, with what makes the
\* turn possible written out). Each scan comes to its end and each sender
\* delivers its goal.
AddFair ==
    /\ \A n \in AddActors : []<>(~LoopReady(n)) \/ []<><<AddLoop(n)>>_vars
    /\ \A n \in AddActors \ {New} : WF_vars(AddRequest(n)) /\ WF_vars(AddScanDone(n))
    /\ \A n \in Old \ AddActors : WF_vars(AddPeerScanDone(n))

AddSpec == AddInit /\ [][AddNext]_vars /\ AddFair

\* Every RM is settled on version 2 with the four RMs and no next
AddDone ==
    \A n \in AddActors :
        /\ tt[n].active # Nil
        /\ tt[n].active[1].cfg.version = 2
        /\ tt[n].active[1].cfg.rms = <<Self, Peer, Third, New>>
        /\ tt[n].active[1].next = Nil

\* How far the topology variable is: 0 settled on version 1, 1 next written
\* with the new RM still to install, 2 installed with the new RM still to
\* be supplied, 3 nothing pending, 4 settled on version 2
AddPhase(t) ==
    IF t.next = Nil THEN (IF t.cfg.version = 1 THEN 0 ELSE 4)
    ELSE IF t.next[1].pendingInstall # <<>> THEN 1
    ELSE IF DOMAIN t.next[1].pending # {} THEN 2
    ELSE 3

\* A write of the topology variable stays in its phase or enters the one
\* after it: next is written with pendingInstall [RM4], pendingInstall is
\* emptied with pending[RM4] standing, pending[RM4] goes once an RM of the
\* old cluster has supplied the new RM, and then version 2 is written
\* without next
C16_Step ==
    store' # store =>
        /\ AddPhase(store') \in {AddPhase(store), AddPhase(store) + 1}
        /\ AddPhase(store') = 1 =>
              /\ store'.next[1].cfg.version = 2
              /\ store'.next[1].pendingInstall = <<New>>
        /\ AddPhase(store') = 2 => DOMAIN store'.next[1].pending = {New}
        /\ AddPhase(store) = 2 =>
              /\ store.next[1].pending[New].suppliers \subseteq Old
              /\ AddPhase(store') = 3 =>
                    \E m \in Old : <<2, m>> \in DOMAIN tt[New].migrations
        /\ AddPhase(store') = 4 =>
              /\ store'.cfg.version = 2
              /\ store'.cfg.rms = <<Self, Peer, Third, New>>

\* C16: the cluster of three with the goal of four goes through
\* installTargetOld, installTargetNew, migrate and installCompletion in that
\* order, one write of the topology variable after the other, and comes to
\* have every RM settled on version 2 with the RMs 1 to 4 and no next
C16_AddOneNode == [][C16_Step]_vars /\ <>[]AddDone

\* Every RM is settled on version 2 after a transaction was resubmitted and
\* the new RM took the completes of all three RMs of the old cluster
C16_Witness ==
    /\ AddDone
    /\ AddPhase(store) = 4
    /\ led.resubmits = MaxResubmits
    /\ led.sent = Old
    /\ net = <<>>

----------------------------------------------------------------------------
(* targetConfig.rewriteTopology as a function of what RunTransaction gives *)
(* it. A result is the pair (outcome, err) of RunTransaction: none is the  *)
(* nil outcome, which is either "commit" or an abort, which is either      *)
(* "resubmit" or a rerun with its list of updates; an update has the id of *)
(* its transaction and a list of actions; an action has the variable it is *)
(* on, its kind, the number of its references and its value, which         *)
(* TopologyFromCap can decode (the topology it holds) or not (Nil). net    *)
(* holds the result of the last call, store the topology it was to write   *)
(* and led.ret what it returned.                                           *)

MaxUpdates == 2
MaxActions == 2
MaxRefs == 2

\* n times x
Times(x, n) == [i \in 1..n |-> x]

RwTopologies ==
    {Topology(Conf("c1", v, <<HostOf(Self)>>, 0, <<Self>>, {}), Nil, 1, Some(1)) :
        v \in {1, 2}}

RwActions ==
    [varId : {"topology", "other"}, which : {"write", "read"}, refs : 0..MaxRefs,
     value : {Nil} \cup {Some(t) : t \in {u \in RwTopologies : u.cfg.version = 2}}]

RwUpdates ==
    {[txnId |-> 7, actions |-> Times(a, n)] : a \in RwActions, n \in 0..MaxActions}

RwResults ==
    {[none |-> n, err |-> e, which |-> "commit", txnId |-> 5, rerun |-> <<>>] :
        n \in BOOLEAN, e \in {"", "run"}}
    \cup {[none |-> FALSE, err |-> "", which |-> w, txnId |-> 5, rerun |-> <<>>] :
            w \in {"commit", "resubmit"}}
    \cup {[none |-> FALSE, err |-> "", which |-> "rerun", txnId |-> 5,
           rerun |-> Times(u, n)] : u \in RwUpdates, n \in 0..MaxUpdates}

\* configuration.TopologyFromCap(dbversion, rootVarPos, value) of a value
\* that decodes
TopologyFromCap(dbversion, root, value) ==
    [value[1] EXCEPT !.dbVersion = dbversion, !.root = root]

RwReturn(topology, resubmit, err) ==
    [topology |-> topology, resubmit |-> resubmit, err |-> err]

\* rewriteTopology from update := abortUpdates.At(0) on, with the bad read
\* taken for the topology that was written
RewriteRerunWritten(write, update) ==
    IF Len(update.actions) # 1
    THEN RwReturn(Nil, FALSE, "Internal error: actions")
    ELSE IF update.actions[1].varId # "topology"
    THEN RwReturn(Nil, FALSE, "Internal error: not for topology")
    ELSE IF update.actions[1].which # "write"
    THEN RwReturn(Nil, FALSE, "Internal error: non-write action")
    ELSE IF update.actions[1].refs > 1
    THEN RwReturn(Nil, FALSE, "Internal error: references")
    ELSE IF update.actions[1].value = Nil
    THEN RwReturn(Nil, FALSE, "decode")
    ELSE RwReturn(Some([write EXCEPT !.dbVersion = update.txnId]), FALSE, "")

\* rewriteTopology from update := abortUpdates.At(0) on
RewriteRerun(write, update) ==
    IF Len(update.actions) # 1
    THEN RwReturn(Nil, FALSE, "Internal error: actions")
    ELSE IF update.actions[1].varId # "topology"
    THEN RwReturn(Nil, FALSE, "Internal error: not for topology")
    ELSE IF update.actions[1].which # "write"
    THEN RwReturn(Nil, FALSE, "Internal error: non-write action")
    ELSE IF update.actions[1].refs > 1
    THEN RwReturn(Nil, FALSE, "Internal error: references")
    ELSE IF update.actions[1].value = Nil
    THEN RwReturn(Nil, FALSE, "decode")
    ELSE RwReturn(Some(TopologyFromCap(update.txnId,
                          IF update.actions[1].refs = 1 THEN Some(1) ELSE Nil,
                          update.actions[1].value)),
                  FALSE, "")

\* rewriteTopology after RunTransaction has returned result
RewriteReturn(write, result) ==
    IF result.none \/ result.err # "" THEN RwReturn(Nil, FALSE, result.err)
    ELSE IF result.which = "commit"
    THEN RwReturn(Some([write EXCEPT !.dbVersion = result.txnId]), FALSE, "")
    ELSE IF result.which = "resubmit" THEN RwReturn(Nil, TRUE, "")
    ELSE IF Len(result.rerun) # 1
    THEN RwReturn(Nil, FALSE, "Internal error: updates")
    ELSE RewriteRerun(write, result.rerun[1])

\* One call of rewriteTopology
RwCall(write, result) ==
    /\ store' = write
    /\ net' = <<result>>
    /\ led' = [ret |-> Some(RewriteReturn(write, result))]
    /\ UNCHANGED <<tt, obs, em, sts, vm, tc>>

RwInit ==
    /\ tt = <<>>
    /\ store \in RwTopologies
    /\ obs = <<>>
    /\ em = NoEmigrator
    /\ net = <<>>
    /\ led = [ret |-> Nil]
    /\ sts = NoSubmitter
    /\ vm = <<>>
    /\ tc = NoChanges

RwNext == \E write \in RwTopologies, result \in RwResults : RwCall(write, result)

RewriteSpec == RwInit /\ [][RwNext]_vars

\* RunTransaction gave an outcome and no error
RwRan(result) == ~result.none /\ result.err = ""

\* The rerun payload holds exactly one update with exactly one write action
\* on the topology variable
RwOneWrite(result) ==
    /\ Len(result.rerun) = 1
    /\ Len(result.rerun[1].actions) = 1
    /\ result.rerun[1].actions[1].varId = "topology"
    /\ result.rerun[1].actions[1].which = "write"

\* The one write action can be read as a topology: at most one reference
\* and a value that decodes
RwReadable(result) ==
    /\ result.rerun[1].actions[1].refs <= 1
    /\ result.rerun[1].actions[1].value # Nil

\* The four returns of rewriteTopology: the written topology on a commit,
\* resubmit on a resubmit abort, the observed topology on a bad read, an
\* error on a payload without exactly one update with exactly one write
\* action on the topology variable
RwFour(write, result, ret) ==
    \/ /\ RwRan(result) /\ result.which = "commit"
       /\ ret = RwReturn(Some([write EXCEPT !.dbVersion = result.txnId]), FALSE, "")
    \/ /\ RwRan(result) /\ result.which = "resubmit"
       /\ ret = RwReturn(Nil, TRUE, "")
    \/ /\ RwRan(result) /\ result.which = "rerun" /\ RwOneWrite(result)
       /\ ret.topology # Nil
       /\ ret.topology[1].cfg = result.rerun[1].actions[1].value[1].cfg
       /\ ret.topology[1].dbVersion = result.rerun[1].txnId
       /\ ~ret.resubmit /\ ret.err = ""
    \/ /\ RwRan(result) /\ result.which = "rerun" /\ ~RwOneWrite(result)
       /\ ret.topology = Nil /\ ~ret.resubmit /\ ret.err # ""

\* C18 as it is stated: every call of rewriteTopology returns one of the
\* four, resubmit only on a resubmit abort
C18_FourReturns ==
    led.ret # Nil =>
        /\ RwFour(store, net[1], led.ret[1])
        /\ led.ret[1].resubmit => RwRan(net[1]) /\ net[1].which = "resubmit"

\* C18: every call of rewriteTopology returns one of the four, or (nil,
\* false, err) when RunTransaction gave an error, or (nil, false, nil) when
\* it gave no outcome and no error, or (nil, false, error) when the one
\* write action on the topology variable has more than one reference or a
\* value that does not decode; resubmit is true only on a resubmit abort,
\* and a bad read whose write action can be read is never an error
C18_Returns ==
    led.ret # Nil =>
        /\ \/ /\ RwRan(net[1])
              /\ net[1].which = "rerun" /\ RwOneWrite(net[1]) =>
                    RwReadable(net[1])
              /\ RwFour(store, net[1], led.ret[1])
           \/ /\ ~RwRan(net[1])
              /\ led.ret[1] = RwReturn(Nil, FALSE, net[1].err)
           \/ /\ RwRan(net[1]) /\ net[1].which = "rerun"
              /\ RwOneWrite(net[1]) /\ ~RwReadable(net[1])
              /\ led.ret[1].topology = Nil /\ ~led.ret[1].resubmit
              /\ led.ret[1].err # ""
        /\ led.ret[1].resubmit => RwRan(net[1]) /\ net[1].which = "resubmit"

\* A bad read came back as the observed topology of version 2 under the id
\* of its transaction, while version 1 was to be written
C18_Witness ==
    /\ led.ret # Nil
    /\ net[1].which = "rerun" /\ RwRan(net[1]) /\ RwOneWrite(net[1])
    /\ store.cfg.version = 1
    /\ led.ret[1].topology # Nil
    /\ led.ret[1].topology[1].cfg.version = 2
    /\ led.ret[1].topology[1].dbVersion = 7

----------------------------------------------------------------------------
(* ClientTxnSubmitter.SubmitClientTransaction and the continuation it      *)
(* hands to the SimpleTxnSubmitter. sts holds txnLive and the delay and    *)
(* retryCount of the closure; a delay is a number of microseconds.         *)
(* rng.Intn(n) gives any of 0..n-1 and panics when n is not positive;      *)
(* sts.panic tells that it did.                                            *)

SubmissionInitialAttempts == 5
SubmissionInitialBackoff == 2

\* server.SubmissionMaxSubmitDelay is 2 s; the delays of the model are cut
\* down to this many microseconds, and the retries of one transaction to
\* MaxRetries
SubmissionMaxSubmitDelay == 16
MaxRetries == 12

\* rand.Intn(n) for n > 0
Intn(n) == 0..(n - 1)

CtsIdle == [txnLive |-> FALSE, delay |-> 0, retryCount |-> 0, panic |-> FALSE]

\* SubmitClientTransaction: delay := 0, retryCount := 0 and the first
\* submission
CtsSubmit ==
    /\ ~sts.panic
    /\ ~sts.txnLive
    /\ sts' = [txnLive |-> TRUE, delay |-> 0, retryCount |-> 0, panic |-> FALSE]
    /\ UNCHANGED <<tt, store, obs, em, net, led, vm, tc>>

\* cont: the node shuts down, the transaction commits, or it aborts with
\* updates that are valid
CtsDone ==
    /\ ~sts.panic
    /\ sts.txnLive
    /\ sts' = [sts EXCEPT !.txnLive = FALSE]
    /\ UNCHANGED <<tt, store, obs, em, net, led, vm, tc>>

\* The delay that cont computes for the retry of number retryCount from the
\* delay before, with grow and capped what rng.Intn gives
Backoff(retryCount, delay, grow, capped) ==
    IF retryCount = SubmissionInitialAttempts THEN SubmissionInitialBackoff
    ELSE IF retryCount > SubmissionInitialAttempts
    THEN IF delay + grow > SubmissionMaxSubmitDelay THEN capped ELSE delay + grow
    ELSE delay

\* cont: a resubmit abort, or a rerun with no valid update
CtsResubmit ==
    /\ ~sts.panic
    /\ sts.txnLive
    /\ sts.retryCount < MaxRetries
    /\ IF sts.retryCount + 1 > SubmissionInitialAttempts /\ sts.delay <= 0
       THEN sts' = [sts EXCEPT !.retryCount = @ + 1, !.panic = TRUE]
       ELSE \E grow \in (IF sts.retryCount + 1 > SubmissionInitialAttempts
                         THEN Intn(sts.delay) ELSE {0}),
               capped \in Intn(SubmissionMaxSubmitDelay) :
               sts' = [sts EXCEPT
                         !.retryCount = @ + 1,
                         !.delay = Backoff(sts.retryCount + 1, sts.delay, grow, capped)]
    /\ UNCHANGED <<tt, store, obs, em, net, led, vm, tc>>

CtsInit ==
    /\ tt = <<>>
    /\ store = Nil
    /\ obs = <<>>
    /\ em = NoEmigrator
    /\ net = <<>>
    /\ led = NoLedger
    /\ sts = CtsIdle
    /\ vm = <<>>
    /\ tc = NoChanges

CtsNext == CtsSubmit \/ CtsDone \/ CtsResubmit

BackoffSpec == CtsInit /\ [][CtsNext]_vars

\* C19: every retry has its delay: 0 before the retry of number
\* SubmissionInitialAttempts, SubmissionInitialBackoff at it, and never
\* more than SubmissionMaxSubmitDelay after any number of retries
C19_Delay ==
    /\ ~sts.panic
    /\ sts.retryCount < SubmissionInitialAttempts => sts.delay = 0
    /\ sts.retryCount = SubmissionInitialAttempts =>
          sts.delay = SubmissionInitialBackoff
    /\ sts.delay <= SubmissionMaxSubmitDelay

----------------------------------------------------------------------------
(* One actor among the phases of a change. Self starts a cluster of three  *)
(* RMs with F = 1 and then observes, in the order in which the topology    *)
(* variable store holds it, what the other RMs write on the way to a       *)
(* cluster where a fourth host takes the place of the third (version 3):   *)
(* the target that calculateTargetTopology gives, the same once            *)
(* installTargetNew has emptied pendingInstall, once migrate has emptied   *)
(* pending, and the configuration installCompletion writes. Self is asked  *)
(* for that goal and for one of version 2 with a fourth host added, which  *)
(* no RM writes; its connections come and go, and the fourth host may      *)
(* belong to another cluster.                                              *)

MaxPhInstallQ == 2
MaxPhExes == 1

Fourth == 4

PhBase == Conf("c1", 1, <<HostOf(Self), HostOf(Peer), HostOf(Third)>>, 1,
               <<Self, Peer, Third>>, {})

PhGoalCfgs ==
    {Conf("c1", 2, <<HostOf(Self), HostOf(Peer), HostOf(Third), HostOf(Fourth)>>,
          1, <<>>, {}),
     Conf("c1", 3, <<HostOf(Self), HostOf(Peer), HostOf(Fourth)>>, 1, <<>>, {})}

PhGoals == {GoalOf(PhBase)} \cup {GoalOf(c) : c \in PhGoalCfgs}

\* A connection to rm whose root is that of the cluster, or is another
PhConn(rm, own) ==
    Conn(HostOf(rm), rm, IF rm = Self THEN Nil ELSE Some(IF own THEN 1 ELSE 2), 0)

PhConns ==
    {{PhConn(rm, TRUE) : rm \in {Self, Peer}},
     {PhConn(rm, TRUE) : rm \in {Self, Peer, Third, Fourth}},
     {PhConn(Self, TRUE), PhConn(Peer, TRUE), PhConn(Third, TRUE), PhConn(Fourth, FALSE)}}

\* No map is ranged over in the other order, every transaction commits
PhPlain ==
    [outcome |-> "commit", rootOutcome |-> "commit", rootId |-> 1, dbErr |-> FALSE,
     addedDesc |-> FALSE, survivedDesc |-> FALSE]

\* What calculateTargetTopology gives an RM settled on PhBase and connected
\* to every host for the goal of cfg
PhTarget(cfg) ==
    CalculateTargetTopology(
        [TargetNode(PhBase, {PhConn(rm, TRUE) : rm \in {Self, Peer, Third, Fourth}})
           EXCEPT !.task = Some(Task(1, "installTargetOld", GoalOf(cfg)))],
        PhPlain).target[1]

\* The topologies on the way from PhBase to cfg, in the order in which the
\* topology variable holds them
PhSteps(cfg) ==
    <<PhTarget(cfg),
      [PhTarget(cfg) EXCEPT !.next = Some([@[1] EXCEPT !.pendingInstall = <<>>])],
      [PhTarget(cfg) EXCEPT !.next = Some([@[1] EXCEPT !.pendingInstall = <<>>,
                                                       !.pending = <<>>])],
      Topology(PhTarget(cfg).next[1].cfg, Nil, cfg.version, Some(1))>>

PhZero == [BlankTopology("c1") EXCEPT !.next = Some(GoalOf(PhBase))]

PhSettled == Topology(PhBase, Nil, 1, Some(1))

\* The changes the other RMs carry out
PhChangeCfgs == {c \in PhGoalCfgs : c.version = 3}

PhPaths == [cfg \in PhChangeCfgs |-> PhSteps(cfg)]

\* What the RMs of the cluster may write over each topology: the cluster of
\* version 1 over topology zero, a target over the settled version 1, the
\* next step of a change
PhSucc ==
    [t \in {PhZero, PhSettled} \cup UNION {SeqToSet(PhPaths[cfg]) : cfg \in PhChangeCfgs} |->
        IF t = PhZero THEN {PhSettled}
        ELSE IF t = PhSettled THEN {PhPaths[cfg][1] : cfg \in PhChangeCfgs}
        ELSE UNION {{PhPaths[cfg][i + 1] : i \in {j \in 1..3 : PhPaths[cfg][j] = t}} :
                      cfg \in PhChangeCfgs}]

\* The RMs of the cluster write the topology variable
PhWritten ==
    /\ \E t \in PhSucc[store] : store' = t
    /\ UNCHANGED <<tt, obs, em, net, led, sts, vm, tc>>

\* One turn of the loop that leaves the actor as r
PhTurn(r) ==
    /\ Len(r.installQ) <= MaxPhInstallQ
    /\ Cardinality(r.exes) <= MaxPhExes
    /\ tt' = [tt EXCEPT ![Self] = Finish(r)]
    /\ UNCHANGED <<store, obs, em, net, led, sts, vm, tc>>

\* actorLoop, oldTask != tt.task
PhTick ==
    /\ ~tt[Self].terminated
    /\ tt[Self].oldTask # CurTaskId(tt[Self])
    /\ IF tt[Self].task = Nil
       THEN PhTurn(Begin([tt[Self] EXCEPT !.oldTask = 0]))
       ELSE \E ch \in ChoicesFor(tt[Self], FALSE) :
              PhTurn(Tick(Begin([tt[Self] EXCEPT !.oldTask = CurTaskId(tt[Self])]), ch))

\* actorLoop, topologyTransmogrifierMsgSetActiveConnections
PhConnections(conns) ==
    /\ CanReceive(tt[Self])
    /\ \E ch \in ChoicesFor(tt[Self], FALSE) :
          PhTurn(ActiveConnectionsChange(Begin(tt[Self]), conns, ch))

\* actorLoop, topologyTransmogrifierMsgTopologyObserved: the subscriber
\* delivers what the topology variable holds
PhObserved ==
    /\ CanReceive(tt[Self])
    /\ \E ch \in ChoicesFor(tt[Self], TRUE) :
          PhTurn(SetActive(Begin(tt[Self]), store, ch))

\* actorLoop, topologyTransmogrifierMsgRequestConfigChange
PhRequest(goal) ==
    /\ CanReceive(tt[Self])
    /\ PhTurn(SelectGoal(Begin(tt[Self]), goal))

\* actorLoop, topologyTransmogrifierMsgExe: installed
PhInstalled ==
    /\ CanReceive(tt[Self])
    /\ tt[Self].installQ # <<>>
    /\ \E ch \in ChoicesFor(tt[Self], FALSE) :
          PhTurn(ExeInstalled([Begin(tt[Self]) EXCEPT !.installQ = Tail(@)],
                              Head(tt[Self].installQ), ch))

\* actorLoop, topologyTransmogrifierMsgExe: the other closures
PhExe(e) ==
    /\ CanReceive(tt[Self])
    /\ \E ch \in ChoicesFor(tt[Self], FALSE) :
          PhTurn(RunExe([Begin(tt[Self]) EXCEPT !.exes = @ \ {e}], e, ch))

PhInit ==
    /\ tt = (Self :> InitNode(Self, PhBase, Nil))
    /\ store = PhZero
    /\ obs = (Self :> <<>>)
    /\ em = NoEmigrator
    /\ net = <<>>
    /\ led = NoLedger
    /\ sts = NoSubmitter
    /\ vm = <<>>
    /\ tc = NoChanges

PhNext ==
    \/ PhWritten
    \/ PhTick
    \/ \E conns \in PhConns : PhConnections(conns)
    \/ PhObserved
    \/ \E g \in PhGoals : PhRequest(g)
    \/ PhInstalled
    \/ \E e \in tt[Self].exes : PhExe(e)

PhaseSpec == PhInit /\ [][PhNext]_vars

----------------------------------------------------------------------------
(* The first tick of a fresh task                                          *)

\* The loop is about to tick a task that no tick has yet given a phase
PhFresh == /\ ~tt[Self].terminated
           /\ TaskKind(tt[Self]) = "targetConfig"
           /\ tt[Self].oldTask # CurTaskId(tt[Self])

\* The table of entry predicates, its rows read in order; "none" where no
\* row applies
EntryTable(active, goal) ==
    IF active = Nil THEN "ensureLocalTopology"
    ELSE IF active[1].cfg.version = 0 THEN "joinCluster"
    ELSE IF active[1].next = Nil \/ active[1].next[1].cfg.version < GoalVersion(goal)
    THEN "installTargetOld"
    ELSE IF /\ active[1].next[1].cfg.version = GoalVersion(goal)
            /\ active[1].next[1].pendingInstall # <<>>
    THEN "installTargetNew"
    ELSE IF /\ active[1].next[1].pendingInstall = <<>>
            /\ DOMAIN active[1].next[1].pending # {}
    THEN "migrate"
    ELSE IF /\ active[1].next[1].pendingInstall = <<>>
            /\ DOMAIN active[1].next[1].pending = {}
    THEN "installCompletion"
    ELSE "none"

\* The same table with next.version = goal.version in the rows of migrate
\* and installCompletion too
EntryTableVersioned(active, goal) ==
    IF /\ active # Nil /\ active[1].cfg.version # 0 /\ active[1].next # Nil
       /\ active[1].next[1].cfg.version > GoalVersion(goal)
    THEN "none"
    ELSE EntryTable(active, goal)

\* The step of the loop that ticks a fresh task leaves the phase selected
\* and nothing else changed, or the actor stopped
PhSelected(selected) ==
    PhFresh /\ tt' # tt =>
        IF selected = "none"
        THEN /\ tt'[Self].terminated
             /\ tt'[Self].err = "Confused about what to do"
             /\ tt'[Self].task = tt[Self].task
        ELSE /\ ~tt'[Self].terminated
             /\ TaskKind(tt'[Self]) = selected
             /\ tt'[Self].oldTask # CurTaskId(tt'[Self])
             /\ tt'[Self].task[1].config = tt[Self].task[1].config
             /\ tt'[Self].active = tt[Self].active
             /\ tt'[Self].installQ = tt[Self].installQ
             /\ tt'[Self].senders = tt[Self].senders
             /\ tt'[Self].exes \subseteq tt[Self].exes

----------------------------------------------------------------------------
(* What the handlers do with a task that has a phase                        *)

Phases == {"joinCluster", "installTargetOld", "installTargetNew", "migrate",
           "installCompletion"}

\* The actor as each handler that can run now would leave it, before the
\* loop looks at the error: the tick of the loop, or the handler of each
\* message that can arrive
PhHandled ==
    IF tt[Self].terminated THEN {}
    ELSE IF tt[Self].oldTask # CurTaskId(tt[Self])
    THEN IF tt[Self].task = Nil THEN {}
         ELSE {Tick(Begin([tt[Self] EXCEPT !.oldTask = CurTaskId(tt[Self])]), ch) :
                 ch \in ChoicesFor(tt[Self], FALSE)}
    ELSE UNION {{ActiveConnectionsChange(Begin(tt[Self]), conns, ch) :
                   ch \in ChoicesFor(tt[Self], FALSE)} : conns \in PhConns}
         \cup {SetActive(Begin(tt[Self]), store, ch) : ch \in ChoicesFor(tt[Self], TRUE)}
         \cup (IF tt[Self].installQ = <<>> THEN {}
               ELSE {ExeInstalled([Begin(tt[Self]) EXCEPT !.installQ = Tail(@)],
                                  Head(tt[Self].installQ), ch) :
                       ch \in ChoicesFor(tt[Self], FALSE)})
         \cup UNION {{RunExe([Begin(tt[Self]) EXCEPT !.exes = @ \ {e}], e, ch) :
                        ch \in ChoicesFor(tt[Self], FALSE)} : e \in tt[Self].exes}

\* The entry predicate of a phase
EntryHolds(kind, active, goal) ==
    CASE kind = "joinCluster" -> active[1].cfg.version = 0
      [] kind = "installTargetOld" ->
           active[1].next = Nil \/ active[1].next[1].cfg.version < GoalVersion(goal)
      [] kind = "installTargetNew" ->
           /\ active[1].next # Nil
           /\ active[1].next[1].cfg.version = GoalVersion(goal)
           /\ active[1].next[1].pendingInstall # <<>>
      [] kind = "migrate" ->
           /\ active[1].next # Nil
           /\ active[1].next[1].cfg.version = GoalVersion(goal)
           /\ active[1].next[1].pendingInstall = <<>>
           /\ DOMAIN active[1].next[1].pending # {}
      [] OTHER ->
           /\ active[1].next # Nil
           /\ active[1].next[1].cfg.version = GoalVersion(goal)
           /\ active[1].next[1].pendingInstall = <<>>
           /\ DOMAIN active[1].next[1].pending = {}

\* r is left by a handler that ticked the phase of the current task when
\* its entry predicate did not hold of the active topology
Outrun(r) ==
    /\ TaskKind(tt[Self]) \in Phases
    /\ r.ticked
    /\ ~EntryHolds(TaskKind(tt[Self]), r.active, tt[Self].task[1].config)

\* The task is gone with its sender and without a transaction; where the
\* active topology has a next, a fresh task has it as its goal
C22_Cleared ==
    \A r \in PhHandled :
        Outrun(r) =>
            /\ r.lastTxn = Nil
            /\ tt[Self].task[1].config \notin r.senders
            /\ IF r.active[1].next = Nil THEN r.task = Nil
               ELSE /\ TaskKind(r) = "targetConfig"
                    /\ CurTaskId(r) \notin {tt[Self].task[1].id, r.oldTask}
                    /\ r.task[1].config = r.active[1].next[1]
                    /\ ~r.task[1].sender

\* The loop gives a fresh task its phase before it does anything else
C22_Reclassify ==
    PhFresh /\ tt' # tt =>
        \/ tt'[Self].terminated
        \/ /\ TaskKind(tt'[Self]) \in Phases \cup {"ensureLocalTopology"}
           /\ tt'[Self].active = tt[Self].active
           /\ tt'[Self].active # Nil =>
                  EntryHolds(TaskKind(tt'[Self]), tt'[Self].active,
                             tt'[Self].task[1].config)

\* C22: the tick of a phase whose entry predicate no longer holds of the
\* observed active topology clears the task, removes its sender and submits
\* no transaction; the task that follows gets its phase from the new active
\* topology
C22_OutrunTaskIsCleared == []C22_Cleared /\ [][C22_Reclassify]_vars

\* installTargetOld is about to learn that another RM installed a target of
\* its goal's version or later
C22_Witness ==
    /\ TaskKind(tt[Self]) = "installTargetOld"
    /\ tt[Self].task[1].sender
    /\ \E r \in PhHandled : Outrun(r) /\ TaskKind(r) = "targetConfig"

----------------------------------------------------------------------------
(* The inner states of migrate                                             *)

\* The place of an inner state in the order of migrate.nextState
StateRank(st) ==
    CASE st = "nil" -> 0
      [] st = "migrateInstall" -> 1
      [] st = "migrateAwaitClientDrain" -> 2
      [] st = "migrateAwaitVarBarrier" -> 3
      [] st = "migrateAwaitImmigrations" -> 4
      [] OTHER -> 5

\* The RMs of tt whose task is a migrate that a step keeps
Migrators ==
    {n \in DOMAIN tt : /\ TaskKind(tt[n]) = "migrate"
                       /\ TaskKind(tt'[n]) = "migrate"
                       /\ tt'[n].task[1].id = tt[n].task[1].id}

\* The barrier was asked for before migrateAwaitVarBarrier and had fired for
\* the next configuration before migrateAwaitImmigrations
C23_Passed ==
    \A n \in DOMAIN tt :
        TaskKind(tt[n]) = "migrate" =>
            LET t == tt[n].task[1]
            IN  /\ StateRank(t.currentState) >= 3 =>
                      \/ t.varBarrierReached # Nil
                      \/ \E e \in tt[n].exes : e.kind = "barrier" /\ e.task = t.id
                /\ StateRank(t.currentState) >= 4 =>
                      t.varBarrierReached = Some(tt[n].active[1].next[1].cfg)
                /\ t.emigrator # 0 =>
                      /\ StateRank(t.currentState) >= 4
                      /\ HasLocalHost(tt[n], tt[n].active[1].cfg)
                      /\ \E e \in tt[n].emigrators : e.id = t.emigrator
                /\ StateRank(t.currentState) >= 4 /\ HasLocalHost(tt[n], tt[n].active[1].cfg)
                      => t.emigrator # 0

\* No inner state comes back, a new task starts before migrateInstall, and
\* an emigrator is made only by a migrate that has none, on its way past
\* migrateAwaitVarBarrier
C23_Step ==
    \A n \in DOMAIN tt :
        /\ n \in Migrators =>
              /\ StateRank(tt'[n].task[1].currentState)
                    >= StateRank(tt[n].task[1].currentState)
              /\ tt[n].task[1].emigrator # 0 =>
                    tt'[n].task[1].emigrator = tt[n].task[1].emigrator
        /\ TaskKind(tt'[n]) = "migrate" /\ n \notin Migrators =>
              /\ tt'[n].task[1].currentState = "nil"
              /\ tt'[n].task[1].emigrator = 0
        /\ Cardinality({e.id : e \in tt'[n].emigrators} \ {e.id : e \in tt[n].emigrators}) <= 1
        /\ \A e \in tt'[n].emigrators :
              e.id \notin {d.id : d \in tt[n].emigrators} =>
                  /\ n \in Migrators
                  /\ tt[n].task[1].emigrator = 0
                  /\ tt'[n].task[1].emigrator = e.id
                  /\ StateRank(tt[n].task[1].currentState) <= 3
                  /\ StateRank(tt'[n].task[1].currentState) >= 4
                  /\ tt'[n].task[1].varBarrierReached = Some(tt'[n].active[1].next[1].cfg)
                  /\ HasLocalHost(tt'[n], tt'[n].active[1].cfg)

\* C23: within one migrate task the inner state only moves forward through
\* migrateInstall, migrateAwaitClientDrain, migrateAwaitVarBarrier,
\* migrateAwaitImmigrations and migrateAwaitNoPending; the emigrator is made
\* only once the recorded barrier equals the next configuration, at most
\* once in a task and only on a member of the old topology
C23_InnerStatesForward == []C23_Passed /\ [][C23_Step]_vars

\* An RM of the old topology has made its emigrator and the new RM is past
\* the barrier without one
C23_Witness ==
    /\ TaskKind(tt[Self]) = "migrate" /\ tt[Self].task[1].emigrator # 0
    /\ TaskKind(tt[New]) = "migrate" /\ tt[New].task[1].emigrator = 0
    /\ StateRank(tt[New].task[1].currentState) >= 4

----------------------------------------------------------------------------
(* The var barrier                                                         *)

\* The closures of ForceToIdle that a step adds to those of n
AskedBarriers(n) == {e \in tt'[n].exes \ tt[n].exes : e.kind = "barrier"}

\* A barrier is asked for by a migrate that leaves migrateAwaitClientDrain,
\* has asked for none before and finds the next configuration installed on
\* the proposers; a barrier is recorded as the closure that fires holds it
C24_Step ==
    \A n \in DOMAIN tt :
        /\ Cardinality(AskedBarriers(n)) <= 1
        /\ \A e \in AskedBarriers(n) :
              /\ TaskKind(tt'[n]) = "migrate"
              /\ e.task = tt'[n].task[1].id
              /\ e.cfg = Some(tt'[n].active[1].next[1].cfg)
              /\ tt'[n].installedOnProposers # Nil
              /\ tt'[n].installedOnProposers[1].next # Nil
              /\ tt'[n].installedOnProposers[1].next[1].cfg = tt'[n].active[1].next[1].cfg
              /\ StateRank(tt'[n].task[1].currentState) >= 3
              /\ n \in Migrators =>
                    /\ StateRank(tt[n].task[1].currentState) <= 2
                    /\ tt[n].task[1].varBarrierReached = Nil
                    /\ ~\E d \in tt[n].exes : d.kind = "barrier" /\ d.task = e.task
        /\ n \in Migrators
              /\ tt'[n].task[1].varBarrierReached # tt[n].task[1].varBarrierReached =>
              /\ tt[n].task[1].varBarrierReached = Nil
              /\ \E e \in tt[n].exes \ tt'[n].exes :
                    /\ e.kind = "barrier" /\ e.task = tt[n].task[1].id
                    /\ tt'[n].task[1].varBarrierReached = e.cfg

\* The configurations a closure of an earlier barrier may hold
StaleCfgs ==
    {PhBase} \cup {PhTarget(c).next[1].cfg : c \in PhGoalCfgs}

\* The barrier that waits is for the next configuration of the active
\* topology, and the closure that another task left behind changes nothing,
\* whatever it holds
C24_Snapshot ==
    \A n \in DOMAIN tt :
        /\ \A e \in tt[n].exes :
              e.kind = "barrier" /\ e.task = CurTaskId(tt[n]) =>
                  /\ TaskKind(tt[n]) = "migrate"
                  /\ tt[n].task[1].varBarrierReached = Nil
                  /\ e.cfg = Some(tt[n].active[1].next[1].cfg)
        /\ TaskKind(tt[n]) = "migrate" /\ tt[n].task[1].varBarrierReached # Nil =>
              tt[n].task[1].varBarrierReached = Some(tt[n].active[1].next[1].cfg)
        /\ CanReceive(tt[n]) =>
              \A id \in (0..(CurTaskId(tt[n]) + 1)) \ {CurTaskId(tt[n])}, c \in StaleCfgs :
                 \A ch \in ChoicesFor(tt[n], FALSE) :
                    RunExe(tt[n], [kind |-> "barrier", task |-> id, cfg |-> Some(c), k |-> 1],
                           ch) = tt[n]

\* C24: migrateAwaitClientDrain asks for the var barrier only once the
\* proposers have a next equal to the next configuration of the active
\* topology, at most once in a migrate task; what the barrier records is the
\* configuration held when it was asked for, and a barrier of another task
\* or for another next enables nothing
C24_BarrierOfThisNext == []C24_Snapshot /\ [][C24_Step]_vars

\* A migrate has asked for the barrier, which holds the configuration the
\* proposers have, and a handler is about to give the task up before the
\* barrier fires
C24_Witness ==
    /\ TaskKind(tt[Self]) = "migrate"
    /\ tt[Self].task[1].varBarrierReached = Nil
    /\ \E e \in tt[Self].exes :
          /\ e.kind = "barrier" /\ e.task = CurTaskId(tt[Self])
          /\ e.cfg = Some(tt[Self].installedOnProposers[1].next[1].cfg)
          /\ \E r \in PhHandled : r.task = Nil /\ e \in r.exes

----------------------------------------------------------------------------
(* The beater of a VarManager. vm holds the callbacks that wait, whether a *)
(* beater is live, the beater goroutines (each with its terminate channel  *)
(* and whether it sleeps or waits on its barrier), the terminate channels  *)
(* that are closed, the beats that wait on the executor, the number of     *)
(* callbacks scheduled so far (a callback is known by its number) and the  *)
(* callbacks in the order in which they ran. ScheduleCallback is called on *)
(* the executor, by a var between two beats or by a callback that runs.    *)

MaxCallbacks == 4

NewBeaterManager ==
    [callbacks |-> <<>>, beaterLive |-> FALSE, beaters |-> {}, closed |-> {},
     exe |-> <<>>, scheduled |-> 0, ran |-> <<>>, panicked |-> FALSE]

\* VarManager.ScheduleCallback
ScheduleCallback(m) ==
    [m EXCEPT !.callbacks = Append(@, m.scheduled + 1),
              !.scheduled = @ + 1,
              !.beaterLive = TRUE,
              !.beaters = IF m.beaterLive THEN @
                          ELSE @ \cup {[terminate |-> Cardinality(m.closed) + 1,
                                        pc |-> "sleep"]}]

\* The same loop from the last callback to the first
RECURSIVE RunCallbacksBackwards(_, _, _)
RunCallbacksBackwards(m, callbacks, again) ==
    IF callbacks = <<>> THEN m
    ELSE RunCallbacksBackwards(
            IF callbacks[Len(callbacks)] \in again
            THEN ScheduleCallback([m EXCEPT !.ran = Append(@, callbacks[Len(callbacks)])])
            ELSE [m EXCEPT !.ran = Append(@, callbacks[Len(callbacks)])],
            SubSeq(callbacks, 1, Len(callbacks) - 1), again)

\* for _, fun := range callbacks { fun() }: each callback runs, and those
\* among again schedule one more
RECURSIVE RunCallbacks(_, _, _)
RunCallbacks(m, callbacks, again) ==
    IF callbacks = <<>> THEN m
    ELSE RunCallbacks(
            IF Head(callbacks) \in again
            THEN ScheduleCallback([m EXCEPT !.ran = Append(@, Head(callbacks))])
            ELSE [m EXCEPT !.ran = Append(@, Head(callbacks))],
            Tail(callbacks), again)

\* close(terminate): closing a closed channel panics
CloseTerminate(m, terminate) ==
    IF terminate \in m.closed THEN [m EXCEPT !.panicked = TRUE]
    ELSE [m EXCEPT !.closed = @ \cup {terminate}, !.beaterLive = FALSE]

\* VarManager.beat
Beat(m, terminate, again) ==
    LET r == IF m.callbacks # <<>>
             THEN RunCallbacks([m EXCEPT !.callbacks = <<>>], m.callbacks, again)
             ELSE m
    IN  IF r.callbacks = <<>> THEN CloseTerminate(r, terminate) ELSE r

\* A var calls ScheduleCallback between two beats
BeaterSchedule ==
    /\ ~vm.panicked
    /\ vm.scheduled < MaxCallbacks
    /\ vm' = ScheduleCallback(vm)
    /\ UNCHANGED <<tt, store, obs, em, net, led, sts, tc>>

\* VarManager.beater: the sleep is over and terminate is closed
BeaterReturn(b) ==
    /\ ~vm.panicked
    /\ b.pc = "sleep"
    /\ b.terminate \in vm.closed
    /\ vm' = [vm EXCEPT !.beaters = @ \ {b}]
    /\ UNCHANGED <<tt, store, obs, em, net, led, sts, tc>>

\* VarManager.beater: the sleep is over and terminate is open
BeaterEnqueue(b) ==
    /\ ~vm.panicked
    /\ b.pc = "sleep"
    /\ b.terminate \notin vm.closed
    /\ vm' = [vm EXCEPT !.beaters = (@ \ {b}) \cup {[b EXCEPT !.pc = "wait"]},
                        !.exe = Append(@, b.terminate)]
    /\ UNCHANGED <<tt, store, obs, em, net, led, sts, tc>>

\* The executor runs fun of the beater: the beat, then barrier <- , which
\* sends the beater back to sleep
BeaterBeat ==
    /\ ~vm.panicked
    /\ vm.exe # <<>>
    /\ \E again \in SUBSET SeqToSet(vm.callbacks) :
          /\ vm.scheduled + Cardinality(again) <= MaxCallbacks
          /\ vm' = [Beat([vm EXCEPT !.exe = Tail(@)], Head(vm.exe), again)
                      EXCEPT !.beaters =
                         {IF b.terminate = Head(vm.exe) THEN [b EXCEPT !.pc = "sleep"]
                          ELSE b : b \in @}]
    /\ UNCHANGED <<tt, store, obs, em, net, led, sts, tc>>

BeaterInit ==
    /\ tt = <<>>
    /\ store = Nil
    /\ obs = <<>>
    /\ em = NoEmigrator
    /\ net = <<>>
    /\ led = NoLedger
    /\ sts = NoSubmitter
    /\ vm = NewBeaterManager
    /\ tc = NoChanges

BeaterNext ==
    \/ BeaterSchedule
    \/ \E b \in vm.beaters : BeaterReturn(b)
    \/ \E b \in vm.beaters : BeaterEnqueue(b)
    \/ BeaterBeat

\* The sleep of a beater ends and the executor comes to every closure
BeaterFair ==
    /\ WF_vars(\E b \in vm.beaters : BeaterReturn(b))
    /\ WF_vars(\E b \in vm.beaters : BeaterEnqueue(b))
    /\ WF_vars(BeaterBeat)

BeaterSpec == BeaterInit /\ [][BeaterNext]_vars /\ BeaterFair

\* The beaters whose terminate is open
LiveBeaters == {b \in vm.beaters : b.terminate \notin vm.closed}

\* The callbacks ran once each in the order in which they were scheduled,
\* those that wait are the rest in that order, one beater is live exactly
\* while beaterLive is set, and no callback waits without a live beater
C25_Queue ==
    /\ ~vm.panicked
    /\ vm.ran \o vm.callbacks = [i \in 1..vm.scheduled |-> i]
    /\ Cardinality(LiveBeaters) = (IF vm.beaterLive THEN 1 ELSE 0)
    /\ ~vm.beaterLive => vm.callbacks = <<>>
    /\ Len(vm.exe) <= 1
    /\ \A j \in 1..Len(vm.exe) :
          /\ vm.exe[j] \notin vm.closed
          /\ [terminate |-> vm.exe[j], pc |-> "wait"] \in vm.beaters

\* A beat runs the callbacks that waited when it began and no other; the
\* beater ends with the beat that leaves none queued, and only then
C25_Step ==
    /\ Len(vm'.exe) < Len(vm.exe) =>
          /\ vm'.ran = vm.ran \o vm.callbacks
          /\ SeqToSet(vm'.callbacks) \cap SeqToSet(vm.callbacks) = {}
          /\ vm'.beaterLive = (vm'.callbacks # <<>>)
    /\ Len(vm'.exe) >= Len(vm.exe) => vm'.ran = vm.ran
    /\ vm.beaterLive /\ ~vm'.beaterLive =>
          Len(vm'.exe) < Len(vm.exe) /\ vm'.callbacks = <<>>
    /\ ~vm.beaterLive /\ vm'.beaterLive =>
          /\ vm'.scheduled = vm.scheduled + 1
          /\ Cardinality(vm'.beaters \ vm.beaters) = 1

\* C25: every callback given to ScheduleCallback runs exactly once on the
\* executor, in the order of scheduling, those scheduled during a beat in a
\* later beat; at most one beater is live; the beater ends exactly after a
\* beat that leaves no callback queued, a later ScheduleCallback starts a
\* new one, and no callback is left waiting for ever
C25_Beater ==
    /\ []C25_Queue
    /\ [][C25_Step]_vars
    /\ []<>(Len(vm.ran) = vm.scheduled /\ vm.beaters = {})

\* A second beater has run the callbacks scheduled after the first one
\* ended
C25_Witness ==
    /\ vm.ran = <<1, 2, 3, 4>>
    /\ vm.closed = {1, 2}
    /\ ~vm.beaterLive
    /\ vm.beaters = {}

----------------------------------------------------------------------------
(* One RM that carries a change out by itself. Self is settled on a        *)
(* cluster of version 1 and connected to its RMs; it is asked for the      *)
(* configuration of version 2 that goes with that cluster, and what it     *)
(* commits is what the topology variable store holds and its subscriber    *)
(* delivers. The connections to the other hosts come and go. led holds the *)
(* cluster Self started in and the RMs whose emigrator has sent its        *)
(* complete to Self; the other RMs that wait for immigrations get them.    *)
(* The clusters: three RMs of which the third is replaced, one RM that     *)
(* gets two more, four RMs of which the fourth is dropped, five RMs with   *)
(* F = 2 of which three are replaced by one.                               *)

MaxDown == 2
MaxQInstallQ == 2
MaxQExes == 1

QHosts(rms) == [i \in 1..Len(rms) |-> HostOf(rms[i])]

QBase(rms, f) == Conf("c1", 1, QHosts(rms), f, rms, {})

QBases == {QBase(<<1, 2, 3>>, 1), QBase(<<1>>, 0), QBase(<<1, 2, 3, 4>>, 1),
           QBase(<<1, 2, 3, 4, 5>>, 2)}

\* The configuration Self is asked for in the cluster base
QGoalCfg(base) ==
    Conf("c1", 2,
         CASE Len(base.rms) = 3 -> QHosts(<<1, 2, 4>>)
           [] Len(base.rms) = 1 -> QHosts(<<1, 2, 3>>)
           [] Len(base.rms) = 4 -> QHosts(<<1, 2, 3>>)
           [] OTHER -> QHosts(<<1, 2, 6>>),
         1, <<>>, {})

\* The hosts the connection manager of Self is told of
QKnown(base) == SeqToSet(base.hosts) \cup SeqToSet(QGoalCfg(base).hosts)

\* The connection to host h: an RM of the cluster has its root, an RM that
\* has yet to join has none
QConn(base, h) ==
    Conn(h, h - 10,
         IF h # HostOf(Self) /\ h \in SeqToSet(base.hosts) THEN Some(1) ELSE Nil, 0)

\* The hosts the connection to which may be lost: any but that of Self; in
\* the cluster of four RMs those of RMs 3 and 4 only, in that of five those
\* of RM 2 and of the new RM only
QMayDrop(base) ==
    CASE Len(base.rms) = 5 -> {HostOf(2), HostOf(6)}
      [] Len(base.rms) = 4 -> {HostOf(3), HostOf(4)}
      [] OTHER -> QKnown(base) \ {HostOf(Self)}

\* The RMs whose emigrator gets to the end of what it has for Self: one
\* that stays and the one that is dropped
QSuppliers == {2, 4}

\* The sets of connections Self may be told of: its own and those to all
\* but MaxDown at most of the other hosts
QConns(base) ==
    {{QConn(base, h) : h \in QKnown(base) \ D} :
        D \in {G \in SUBSET QMayDrop(base) : Cardinality(G) <= MaxDown}}

\* What a handler can meet: the transaction commits, is beaten by another
\* write or is to be resubmitted
QChoices(s) == {ch \in ClusterChoices(s) : ch.rootOutcome = "commit"}

\* One turn of the loop that leaves the actor as r. The transaction of the
\* turn commits only if it read what the topology variable holds, and then
\* the variable holds what it wrote; it is beaten only if it read something
\* older.
QTurn(r) ==
    /\ Len(r.installQ) <= MaxQInstallQ
    /\ Cardinality(r.exes) <= MaxQExes
    /\ tt' = [tt EXCEPT ![Self] = Finish(r)]
    /\ IF r.lastTxn = Nil THEN store' = store
       ELSE IF r.lastOutcome = "commit"
       THEN /\ r.lastTxn[1].read[1].dbVersion = store.dbVersion
            /\ store' = [r.lastTxn[1].write[1] EXCEPT !.dbVersion = store.dbVersion + 1]
       ELSE /\ r.lastOutcome = "badRead" =>
                  r.lastTxn[1].read[1].dbVersion # store.dbVersion
            /\ store' = store

\* actorLoop, oldTask != tt.task
QTick ==
    /\ ~tt[Self].terminated
    /\ tt[Self].oldTask # CurTaskId(tt[Self])
    /\ IF tt[Self].task = Nil
       THEN QTurn(Begin([tt[Self] EXCEPT !.oldTask = 0]))
       ELSE \E ch \in QChoices(tt[Self]) :
              QTurn(Tick(Begin([tt[Self] EXCEPT !.oldTask = CurTaskId(tt[Self])]), ch))
    /\ UNCHANGED <<obs, em, net, led, sts, vm, tc>>

\* actorLoop, topologyTransmogrifierMsgSetActiveConnections
QConnections(conns) ==
    /\ CanReceive(tt[Self])
    /\ \E ch \in QChoices(tt[Self]) :
          QTurn(ActiveConnectionsChange(Begin(tt[Self]), conns, ch))
    /\ UNCHANGED <<obs, em, net, led, sts, vm, tc>>

\* actorLoop, topologyTransmogrifierMsgTopologyObserved
QObserved ==
    /\ CanReceive(tt[Self])
    /\ \E ch \in QChoices(tt[Self]) : QTurn(SetActive(Begin(tt[Self]), store, ch))
    /\ UNCHANGED <<obs, em, net, led, sts, vm, tc>>

\* actorLoop, topologyTransmogrifierMsgRequestConfigChange
QRequest ==
    /\ CanReceive(tt[Self])
    /\ QTurn(SelectGoal(Begin(tt[Self]), GoalOf(QGoalCfg(led.base))))
    /\ UNCHANGED <<obs, em, net, led, sts, vm, tc>>

\* actorLoop, topologyTransmogrifierMsgExe: installed
QInstalled ==
    /\ CanReceive(tt[Self])
    /\ tt[Self].installQ # <<>>
    /\ \E ch \in QChoices(tt[Self]) :
          QTurn(ExeInstalled([Begin(tt[Self]) EXCEPT !.installQ = Tail(@)],
                             Head(tt[Self].installQ), ch))
    /\ UNCHANGED <<obs, em, net, led, sts, vm, tc>>

\* actorLoop, topologyTransmogrifierMsgExe: the other closures
QExe(e) ==
    /\ CanReceive(tt[Self])
    /\ \E ch \in QChoices(tt[Self]) :
          QTurn(RunExe([Begin(tt[Self]) EXCEPT !.exes = @ \ {e}], e, ch))
    /\ UNCHANGED <<obs, em, net, led, sts, vm, tc>>

\* actorLoop, topologyTransmogrifierMsgMigrationComplete: the emigrator of
\* an RM of the old cluster that Self is connected to has sent Self all it
\* has for it
QDeliver(m) ==
    /\ CanReceive(tt[Self])
    /\ m \notin led.sent
    /\ Migrating(store)
    /\ Self \in DOMAIN store.next[1].pending
    /\ Connected(tt[Self].activeConnections, m)
    /\ \E ch \in QChoices(tt[Self]) :
          QTurn(HandleMsg(Begin(tt[Self]),
                          Msg("complete", store.next[1].cfg.version, m, 1, 0), ch))
    /\ led' = [led EXCEPT !.sent = @ \cup {m}]
    /\ UNCHANGED <<obs, em, net, sts, vm, tc>>

\* migrateAwaitImmigrations.tick of another RM: it has all it waited for and
\* its transaction that says so commits
QPeerSupplied(m) ==
    /\ Migrating(store)
    /\ m \in (DOMAIN store.next[1].pending) \ {Self}
    /\ store' = [store EXCEPT
                   !.dbVersion = @ + 1,
                   !.next = Some([store.next[1] EXCEPT
                                    !.pending = Restrict(@, (DOMAIN @) \ {m})])]
    /\ UNCHANGED <<tt, obs, em, net, led, sts, vm, tc>>

QInit ==
    /\ \E base \in QBases :
          /\ tt = (Self :> TargetNode(base, {QConn(base, h) : h \in SeqToSet(base.hosts)}))
          /\ store = Topology(base, Nil, 1, Some(1))
          /\ led = [base |-> base, sent |-> {}]
    /\ obs = (Self :> <<>>)
    /\ em = NoEmigrator
    /\ net = <<>>
    /\ sts = NoSubmitter
    /\ vm = <<>>
    /\ tc = NoChanges

QNext ==
    \/ QTick
    \/ \E conns \in QConns(led.base) : QConnections(conns)
    \/ QObserved
    \/ QRequest
    \/ QInstalled
    \/ \E e \in tt[Self].exes : QExe(e)
    \/ \E m \in SeqToSet(led.base.rms) \cap QSuppliers : QDeliver(m)
    \/ \E m \in 1..6 : QPeerSupplied(m)

QuorumSpec == QInit /\ [][QNext]_vars

\* The actor as each handler that can run now would leave it, before the
\* loop looks at the error
QHandled ==
    IF tt[Self].terminated THEN {}
    ELSE IF tt[Self].oldTask # CurTaskId(tt[Self])
    THEN IF tt[Self].task = Nil THEN {}
         ELSE {Tick(Begin([tt[Self] EXCEPT !.oldTask = CurTaskId(tt[Self])]), ch) :
                 ch \in QChoices(tt[Self])}
    ELSE UNION {{ActiveConnectionsChange(Begin(tt[Self]), conns, ch) :
                   ch \in QChoices(tt[Self])} : conns \in QConns(led.base)}
         \cup {SetActive(Begin(tt[Self]), store, ch) : ch \in QChoices(tt[Self])}
         \cup (IF tt[Self].installQ = <<>> THEN {}
               ELSE {ExeInstalled([Begin(tt[Self]) EXCEPT !.installQ = Tail(@)],
                                  Head(tt[Self].installQ), ch) :
                       ch \in QChoices(tt[Self])})
         \cup UNION {{RunExe([Begin(tt[Self]) EXCEPT !.exes = @ \ {e}], e, ch) :
                        ch \in QChoices(tt[Self])} : e \in tt[Self].exes}
         \cup UNION {{HandleMsg(Begin(tt[Self]),
                                Msg("complete", tt[Self].active[1].cfg.version + 1, m, 1, 0),
                                ch) : ch \in QChoices(tt[Self])} :
                      m \in SeqToSet(led.base.rms) \cap QSuppliers}

\* The handlers that tick the task submit the transaction of its phase
SubmittedBy(kind) ==
    {r \in QHandled : TaskKind(tt[Self]) = kind /\ r.ticked /\ r.lastTxn # Nil}

----------------------------------------------------------------------------
(* The RMs of the transactions of a change                                 *)

\* The RMs of rmIds that r is connected to, and those it is not
Up(r, rmIds) == {x \in SeqToSet(NonEmpty(rmIds)) : Connected(r.activeConnections, x)}
Down(r, rmIds) == SeqToSet(NonEmpty(rmIds)) \ Up(r, rmIds)

\* No RM twice
OneEach(q) == Cardinality(SeqToSet(q)) = Len(q)

\* C26: installTargetOld submits only when it is connected to more RMs of
\* the old topology than not; the active RMs are floor(n/2) + 1 connected
\* RMs of the old topology, n the number of its RMs, the passive ones are
\* all its other RMs, those to be removed too, and no other RM takes part
C26_OldQuorum ==
    \A r \in SubmittedBy("installTargetOld") :
        LET txn == r.lastTxn[1]
            rms == tt[Self].active[1].cfg.rms
        IN  /\ txn.read = tt[Self].active
            /\ Cardinality(Up(r, rms)) > Cardinality(Down(r, rms))
            /\ Len(txn.active) = (NonEmptyLen(rms) \div 2) + 1
            /\ OneEach(txn.active) /\ OneEach(txn.passive)
            /\ SeqToSet(txn.active) \subseteq Up(r, rms)
            /\ SeqToSet(txn.passive) = SeqToSet(NonEmpty(rms)) \ SeqToSet(txn.active)
            /\ SeqToSet(txn.write[1].next[1].lostRMIds) \subseteq
                  SeqToSet(txn.active) \cup SeqToSet(txn.passive)

\* A transaction of installTargetOld has the RM to be removed and an RM that
\* is not connected among its passive RMs, and with fewer connections
\* installTargetOld submits nothing
C26_Witness ==
    /\ \E r \in SubmittedBy("installTargetOld") :
          /\ SeqToSet(r.lastTxn[1].write[1].next[1].lostRMIds)
                \cap SeqToSet(r.lastTxn[1].passive) # {}
          /\ Down(r, tt[Self].active[1].cfg.rms) # {}
    /\ \E r \in QHandled :
          /\ TaskKind(tt[Self]) = "installTargetOld" /\ TaskKind(r) = "installTargetOld"
          /\ r.ticked /\ r.lastTxn = Nil
          /\ Cardinality(Up(r, tt[Self].active[1].cfg.rms))
                <= Cardinality(Down(r, tt[Self].active[1].cfg.rms))

\* The newcomers installTargetNew has extended to
ExtendedTo(next) == Prefix(next.newRMIds, Len(next.newRMIds) - Len(next.pendingInstall))

\* The active RMs of the transactions of installTargetNew are connected and
\* are survivors of the topology read or newcomers already extended to
ActiveAreCandidates ==
    \A r \in SubmittedBy("installTargetNew") :
        LET next == r.lastTxn[1].read[1].next[1]
        IN  /\ SeqToSet(r.lastTxn[1].active) \subseteq Up(r, Candidates(next))
            /\ Candidates(next) = next.survivingRMIds \o ExtendedTo(next)
            /\ OneEach(r.lastTxn[1].active)

\* C27: a transaction of installTargetNew has at least F_old + 1 active RMs,
\* all of them connected and all of them survivors or newcomers already
\* extended to
C27_NewQuorum ==
    /\ ActiveAreCandidates
    /\ \A r \in SubmittedBy("installTargetNew") :
          Len(r.lastTxn[1].active) >= r.lastTxn[1].read[1].cfg.f + 1

\* p is what is left of q after its first RMs
IsSuffix(p, q) == Len(p) <= Len(q) /\ Suffix(q, Len(q) - Len(p)) = p

\* The pendingInstall of a topology, none when it has no next
PendingOf(top) == IF top[1].next = Nil THEN <<>> ELSE top[1].next[1].pendingInstall

\* The transactions of installTargetNew move newcomers from the head of
\* pendingInstall into the passive RMs
Extends(txn) ==
    /\ IsSuffix(PendingOf(txn.write), PendingOf(txn.read))
    /\ Len(PendingOf(txn.write)) < Len(PendingOf(txn.read))
    /\ SeqToSet(PendingOf(txn.read)) \ SeqToSet(PendingOf(txn.write))
          \subseteq SeqToSet(txn.passive)
    /\ [txn.write[1] EXCEPT !.next = txn.read[1].next] = txn.read[1]
    /\ [txn.write[1].next[1] EXCEPT !.pendingInstall = PendingOf(txn.read)]
          = txn.read[1].next[1]

\* installTargetNew can extend to no newcomer: the connected candidates less
\* one, and one more in a cluster of one RM, are no more than the
\* disconnected ones
NoProgress(r) ==
    /\ r.active # Nil
    /\ r.active[1].next # Nil
    /\ r.active[1].next[1].pendingInstall # <<>>
    /\ r.active[1].next[1].cfg.version = tt[Self].task[1].config.cfg.version
    /\ (Cardinality(Up(r, Candidates(r.active[1].next[1]))) - 1)
          + (IF NonEmptyLen(r.active[1].cfg.rms) = 1 THEN 1 ELSE 0)
         <= Cardinality(Down(r, Candidates(r.active[1].next[1])))

C28_Pending ==
    /\ \A top \in {tt[Self].active, Some(store)} \cup SeqToSet(tt[Self].installQ) :
          (top # Nil /\ top[1].next # Nil)
            => IsSuffix(PendingOf(top), top[1].next[1].newRMIds)
    /\ \A r \in SubmittedBy("installTargetNew") : Extends(r.lastTxn[1])
    /\ \A r \in QHandled :
          (TaskKind(tt[Self]) = "installTargetNew" /\ r.ticked /\ NoProgress(r))
            => /\ r.lastTxn = Nil
               /\ r.err = "" => TaskKind(r) = "installTargetNew"

\* pendingInstall of one change loses RMs from its head only
C28_Step ==
    /\ (store.next # Nil /\ store'.next # Nil
           /\ store.next[1].cfg.version = store'.next[1].cfg.version)
         => IsSuffix(PendingOf(Some(store')), PendingOf(Some(store)))
    /\ (tt[Self].active[1].next # Nil /\ tt'[Self].active[1].next # Nil
           /\ tt[Self].active[1].next[1].cfg.version = tt'[Self].active[1].next[1].cfg.version)
         => IsSuffix(PendingOf(tt'[Self].active), PendingOf(tt[Self].active))

\* C28: pendingInstall only shrinks: every topology installTargetNew writes
\* has a pendingInstall that is a proper suffix of the one it read, the
\* newcomers taken off it being passive in the transaction, so pendingInstall
\* is always a suffix of newRMIds; when the connected candidates less one
\* (and one more in a cluster of one RM) do not exceed the disconnected
\* candidates, no transaction is submitted and the task waits
C28_PendingInstallShrinks == []C28_Pending /\ [][C28_Step]_vars

\* installTargetNew extends from a single RM to the first of two newcomers,
\* and with its candidates disconnected it waits
C28_Witness ==
    /\ \E r \in SubmittedBy("installTargetNew") :
          /\ NonEmptyLen(r.lastTxn[1].read[1].cfg.rms) = 1
          /\ Len(PendingOf(r.lastTxn[1].read)) = 2
          /\ Len(PendingOf(r.lastTxn[1].write)) = 1
    /\ \E r \in QHandled :
          /\ TaskKind(tt[Self]) = "installTargetNew" /\ r.ticked /\ NoProgress(r)
          /\ TaskKind(r) = "installTargetNew"

\* The phases that submit their transactions once next is written
LaterPhases == {"installTargetNew", "migrate", "installCompletion"}

\* The lost RMs of the change a transaction belongs to
LostOf(txn) == SeqToSet(txn.read[1].next[1].lostRMIds)

\* C29: in every transaction of installTargetNew, migrateAwaitImmigrations
\* and installCompletion every RM of next.lostRMIds is passive and none is
\* active, connected or not
C29_LostArePassive ==
    \A kind \in LaterPhases : \A r \in SubmittedBy(kind) :
        /\ r.lastTxn[1].read # Nil /\ r.lastTxn[1].read[1].next # Nil
        /\ LostOf(r.lastTxn[1]) \subseteq SeqToSet(r.lastTxn[1].passive)
        /\ LostOf(r.lastTxn[1]) \cap SeqToSet(r.lastTxn[1].active) = {}

\* installCompletion submits its transaction while a lost RM is not connected
C29_Witness ==
    \E r \in SubmittedBy("installCompletion") :
        /\ \E x \in LostOf(r.lastTxn[1]) : ~Connected(r.activeConnections, x)
        /\ LostOf(r.lastTxn[1]) \subseteq SeqToSet(r.lastTxn[1].passive)

----------------------------------------------------------------------------
(* The migration conditions of a change. One RM in clusters of one to four *)
(* hosts and with F of 0 or 1 computes the target of one change after the  *)
(* other, each to any list of hosts that holds its own and to any F the    *)
(* hosts allow; the target becomes its active topology, and then the       *)
(* configuration of next does.                                             *)

MaxCondHosts == 4
MaxCondF == 1
MaxCondVersion == 3

CondHosts == {HostOf(rm) : rm \in 1..MaxCondHosts}

\* The configurations an operator may ask for or start with: the host of
\* Self is one of the hosts and there are at least 2F + 1 of them
CondGoals ==
    {<<SortedSeq(H \cup {HostOf(Self)}), f>> :
        H \in SUBSET CondHosts, f \in 0..MaxCondF}
      \cap {g \in Seq(CondHosts) \X (0..MaxCondF) : (2 * g[2]) + 1 <= Len(g[1])}

\* The actor of Self in installTargetOld.tick for the goal g
CondTask(s, g) ==
    [s EXCEPT !.task = Some(Task(1, "installTargetOld",
                  GoalOf(Conf(s.active[1].cfg.clusterId,
                              s.active[1].cfg.version + 1, g[1], g[2], <<>>, {}))))]

\* installTargetOld has written the target of the goal g and Self has made it
\* its active topology
CondChange(g) ==
    /\ tt[Self].active[1].next = Nil
    /\ tt[Self].active[1].cfg.version < MaxCondVersion
    /\ \E ch \in TargetChoices(CondTask(tt[Self], g)) :
          /\ CalculateTargetTopology(CondTask(tt[Self], g), ch).target # Nil
          /\ tt' = [tt EXCEPT ![Self] =
                [@ EXCEPT !.active =
                     CalculateTargetTopology(CondTask(tt[Self], g), ch).target]]
    /\ UNCHANGED <<store, obs, em, net, led, sts, vm, tc>>

\* installCompletion has written the configuration of next
CondCompleted ==
    /\ tt[Self].active[1].next # Nil
    /\ tt' = [tt EXCEPT ![Self] =
                TargetNode(tt[Self].active[1].next[1].cfg, tt[Self].hostToConnection)]
    /\ UNCHANGED <<store, obs, em, net, led, sts, vm, tc>>

CondInit ==
    /\ \E g \in CondGoals :
          tt = (Self :> TargetNode(
                  Conf("c1", 1, g[1], g[2],
                       [i \in 1..Len(g[1]) |-> g[1][i] - HostOf(0)], {}),
                  {TargetConn(h, FALSE) : h \in CondHosts}))
    /\ store = Nil
    /\ obs = <<>>
    /\ em = NoEmigrator
    /\ net = <<>>
    /\ led = NoLedger
    /\ sts = NoSubmitter
    /\ vm = <<>>
    /\ tc = NoChanges

CondNext ==
    \/ \E g \in CondGoals : CondChange(g)
    \/ CondCompleted

CondSpec == CondInit /\ [][CondNext]_vars

\* The clause is a generator with these fields
IsGenerator(c, rmId, permLen, start, includes) ==
    /\ "left" \notin DOMAIN c
    /\ c.rmId = rmId /\ c.permLen = permLen /\ c.start = start
    /\ c.includes = includes

\* The RMs that a change gives a clause of each kind
SqueezedSurvivors(from, next) ==
    IF /\ next.lostRMIds # <<>>
       /\ (2 * from.f) + 1 < NonEmptyLen(from.rms)
       /\ Len(next.survivingRMIds) > 1
    THEN SeqToSet(next.survivingRMIds) ELSE {}
WidenedSurvivors(from, next) ==
    IF next.cfg.f > from.f THEN SeqToSet(next.survivingRMIds) ELSE {}

\* The clauses of the RM r are those of the kinds it is entitled to, one each
ClausesOf(r, cond, from, next) ==
    /\ Len(cond) = (IF r \in SeqToSet(next.newRMIds) THEN 1 ELSE 0)
                    + (IF r \in SqueezedSurvivors(from, next) THEN 1 ELSE 0)
                    + (IF r \in WidenedSurvivors(from, next) THEN 1 ELSE 0)
    /\ r \in SeqToSet(next.newRMIds) =>
          \E i \in DOMAIN cond :
              /\ IsGenerator(cond[i], r, NonEmptyLen(next.cfg.rms), 0, TRUE)
              /\ cond[i].len = (2 * next.cfg.f) + 1
    /\ r \in SqueezedSurvivors(from, next) =>
          \E i \in DOMAIN cond :
              /\ IsGenerator(cond[i], r, NonEmptyLen(from.rms), (2 * from.f) + 1, TRUE)
              /\ cond[i].lenAdjustIntersect = next.lostRMIds
    /\ r \in WidenedSurvivors(from, next) =>
          \E i \in DOMAIN cond :
              /\ "left" \in DOMAIN cond[i]
              /\ IsGenerator(cond[i].left, r, NonEmptyLen(next.cfg.rms), 0, TRUE)
              /\ cond[i].left.len = (2 * next.cfg.f) + 1
              /\ IsGenerator(cond[i].right, r, NonEmptyLen(from.rms), 0, FALSE)
              /\ cond[i].right.len = (2 * from.f) + 1

----------------------------------------------------------------------------
(* The start of a node. Self starts with or without a configuration, and   *)
(* with a local store that is empty or holds the topology an earlier run   *)
(* left there: the topology zero, a settled one, one in transition, or the *)
(* one that removed Self from the cluster. The environment is that of      *)
(* Spec.                                                                   *)

\* No configuration file: the configuration has no ClusterId
NoConfig == Conf("", 0, <<>>, 0, <<>>, {})

StartConfigs == {CfgOf("c1", 1), NoConfig}

StartDbs ==
    {Nil,
     Some([BlankTopology("c1") EXCEPT !.next = Some(InitialGoal)]),
     Some(Topology(CfgOf("c1", 1), Nil, 1, Some(1))),
     Some(Topology(CfgOf("c1", 1), Some(NextOf("c1", 2)), 1, Some(1))),
     Some(Topology([CfgOf("c1", MaxVersion) EXCEPT !.rmsRemoved = {Self}],
                   Nil, MaxVersion, Some(1)))}

StartInit ==
    /\ \E cfg \in StartConfigs : \E db \in StartDbs :
          tt = (Self :> InitNode(Self, cfg, db))
    /\ store = Nil
    /\ obs = (Self :> <<>>)
    /\ em = NoEmigrator
    /\ net = <<>>
    /\ led = NoLedger
    /\ sts = NoSubmitter
    /\ vm = <<>>
    /\ tc = NoChanges

StartSpec == StartInit /\ [][Next]_vars

\* The handlers that tick ensureLocalTopology while there is no active
\* topology, each with the choices it met: the tick of the loop and the
\* change of the connections
EnsureTicks ==
    IF \/ tt[Self].terminated \/ TaskKind(tt[Self]) # "ensureLocalTopology"
       \/ tt[Self].active # Nil
    THEN {}
    ELSE IF tt[Self].oldTask # CurTaskId(tt[Self])
    THEN {[ch |-> ch,
           r |-> Tick(Begin([tt[Self] EXCEPT !.oldTask = CurTaskId(tt[Self])]), ch)] :
             ch \in ChoicesFor(tt[Self], FALSE)}
    ELSE UNION {{[ch |-> ch, r |-> ActiveConnectionsChange(Begin(tt[Self]), conns, ch)] :
                   ch \in ChoicesFor(tt[Self], FALSE)} : conns \in EnvConns}

\* The topology zero of the goal of the task
ZeroOf(s) ==
    [BlankTopology(GoalClusterId(s.task[1].config)) EXCEPT !.next = Some(s.task[1].config)]

\* ensureLocalTopology has done nothing
Untouched(r) ==
    /\ r.lastTxn = Nil /\ r.active = Nil /\ r.err = ""
    /\ r.task = tt[Self].task /\ r.localDb = tt[Self].localDb
    /\ r.installQ = tt[Self].installQ

\* ensureLocalTopology has made the topology zero and waits to observe it
ZeroCreated(t) ==
    /\ t.r.lastTxn = Some(CreateTopologyTransaction(Nil, Some(ZeroOf(tt[Self])),
                                                     <<Self>>, <<>>))
    /\ ZeroOf(tt[Self]).cfg.version = 0
    /\ t.r.active = Nil
    /\ t.ch.outcome = "commit" =>
          /\ t.r.err = "" /\ t.r.task = tt[Self].task
          /\ t.r.localDb = Some(ZeroOf(tt[Self]))

\* The cases of ensureLocalTopology.tick but the last, the local store read
\* without an error
C31_Cases ==
    \A t \in EnsureTicks :
        IF ~Connected(t.r.activeConnections, Self) THEN Untouched(t.r)
        ELSE IF t.ch.dbErr THEN TRUE
        ELSE IF tt[Self].localDb = Nil /\ GoalClusterId(tt[Self].task[1].config) = ""
        THEN t.r.err # "" /\ t.r.lastTxn = Nil /\ t.r.active = Nil
        ELSE IF tt[Self].localDb = Nil THEN ZeroCreated(t)
        ELSE t.r.lastTxn = Nil /\ t.r.localDb = tt[Self].localDb

\* The topologies of the local store that list Self among the removed RMs
RemovedInStore == tt[Self].localDb # Nil /\ Self \in tt[Self].localDb[1].cfg.rmsRemoved

\* The handlers of EnsureTicks that find a topology in the local store
StoreFound ==
    {t \in EnsureTicks : /\ Connected(t.r.activeConnections, Self) /\ ~t.ch.dbErr
                          /\ tt[Self].localDb # Nil}

\* C31: ensureLocalTopology does nothing until the RMId of the node is in
\* activeConnections; then, the local store holding no topology, it fails
\* fatally if the goal has no ClusterId and otherwise creates the topology
\* zero whose next is the goal and waits to observe it; a topology that the
\* local store holds it makes the active one and writes nothing
C31_EnsureLocalTopology ==
    /\ C31_Cases
    /\ \A t \in StoreFound : t.r.active = tt[Self].localDb

\* C31 as it holds: a stored topology that lists the node among the removed
\* RMs is not made the active one; the node fails fatally instead
C31_EnsureLocalTopologyUnlessRemoved ==
    /\ C31_Cases
    /\ \A t \in StoreFound :
          IF RemovedInStore
          THEN t.r.active = Nil /\ t.r.err # "" /\ t.r.lastTxn = Nil
          ELSE t.r.active = tt[Self].localDb /\ t.r.err = ""

\* The node starts with the topology that removed it in its local store,
\* gets the connection to itself, and fails without an active topology
C31_Witness ==
    /\ RemovedInStore
    /\ \E t \in StoreFound :
          /\ t.r.err # "" /\ t.r.active = Nil
          /\ ~Connected(tt[Self].activeConnections, Self)

----------------------------------------------------------------------------
(* Joining. Self starts with an empty store and the configuration of a     *)
(* cluster of three hosts with F = 1. Its connections to itself and to the *)
(* two other hosts come and go; each of the two reports no root or the     *)
(* root of one of two clusters, and the first of them may have been wiped  *)
(* and have a new RMId. The subscriber delivers the topology zero          *)
(* that Self created and the topology of version 1 that the joining RMs    *)
(* agree on.                                                               *)

MaxJInstallQ == 4
MaxJExes == 1
MaxRoots == 2

JoinCfg ==
    Conf("c1", 1, <<HostOf(Self), HostOf(Peer), HostOf(Third)>>, 1, <<>>, {})

\* The connections Self may have: none, or the one to itself and at most
\* one to each of the other hosts
JoinConns ==
    {{}} \cup
    {{SelfConn} \cup P \cup T :
        P \in {{}} \cup {{Conn(HostOf(Peer), rm, root, 0)} :
                            rm \in {Peer, New},
                            root \in {Nil} \cup {Some(k) : k \in 1..MaxRoots}},
        T \in {{}} \cup {{Conn(HostOf(Third), Third, root, 0)} :
                            root \in {Nil} \cup {Some(k) : k \in 1..MaxRoots}}}

\* What the subscriber may deliver
JoinTopologies ==
    {[BlankTopology("c1") EXCEPT !.next = Some(GoalOf(JoinCfg))],
     Topology([JoinCfg EXCEPT !.rms = <<Peer, Third, Self>>], Nil, 1, Some(1))}

\* One turn of the loop that leaves the actor as r
JTurn(r) ==
    /\ Len(r.installQ) <= MaxJInstallQ
    /\ Cardinality(r.exes) <= MaxJExes
    /\ tt' = [tt EXCEPT ![Self] = Finish(r)]
    /\ UNCHANGED <<store, obs, em, net, led, sts, vm, tc>>

\* actorLoop, oldTask != tt.task
JTick ==
    /\ ~tt[Self].terminated
    /\ tt[Self].oldTask # CurTaskId(tt[Self])
    /\ IF tt[Self].task = Nil
       THEN JTurn(Begin([tt[Self] EXCEPT !.oldTask = 0]))
       ELSE \E ch \in ChoicesFor(tt[Self], FALSE) :
              JTurn(Tick(Begin([tt[Self] EXCEPT !.oldTask = CurTaskId(tt[Self])]), ch))

\* actorLoop, topologyTransmogrifierMsgSetActiveConnections
JConnections(conns) ==
    /\ CanReceive(tt[Self])
    /\ \E ch \in ChoicesFor(tt[Self], FALSE) :
          JTurn(ActiveConnectionsChange(Begin(tt[Self]), conns, ch))

\* actorLoop, topologyTransmogrifierMsgTopologyObserved
JObserved(t) ==
    /\ CanReceive(tt[Self])
    /\ \E ch \in ChoicesFor(tt[Self], TRUE) : JTurn(SetActive(Begin(tt[Self]), t, ch))

\* actorLoop, topologyTransmogrifierMsgExe: installed
JInstalled ==
    /\ CanReceive(tt[Self])
    /\ tt[Self].installQ # <<>>
    /\ \E ch \in ChoicesFor(tt[Self], FALSE) :
          JTurn(ExeInstalled([Begin(tt[Self]) EXCEPT !.installQ = Tail(@)],
                             Head(tt[Self].installQ), ch))

\* actorLoop, topologyTransmogrifierMsgExe: the other closures
JExe(e) ==
    /\ CanReceive(tt[Self])
    /\ \E ch \in ChoicesFor(tt[Self], FALSE) :
          JTurn(RunExe([Begin(tt[Self]) EXCEPT !.exes = @ \ {e}], e, ch))

JInit ==
    /\ tt = (Self :> InitNode(Self, JoinCfg, Nil))
    /\ store = Nil
    /\ obs = (Self :> <<>>)
    /\ em = NoEmigrator
    /\ net = <<>>
    /\ led = NoLedger
    /\ sts = NoSubmitter
    /\ vm = <<>>
    /\ tc = NoChanges

JNext ==
    \/ JTick
    \/ \E conns \in JoinConns : JConnections(conns)
    \/ \E t \in JoinTopologies : JObserved(t)
    \/ JInstalled
    \/ \E e \in tt[Self].exes : JExe(e)

JoinSpec == JInit /\ [][JNext]_vars

\* The handlers that tick joinCluster while the active topology is the
\* topology zero, each with the choices it met
JoinTicks ==
    IF \/ tt[Self].terminated \/ TaskKind(tt[Self]) # "joinCluster"
       \/ tt[Self].active = Nil
    THEN {}
    ELSE {t \in
           (IF tt[Self].oldTask # CurTaskId(tt[Self])
            THEN {[ch |-> ch,
                   r |-> Tick(Begin([tt[Self] EXCEPT !.oldTask = CurTaskId(tt[Self])]), ch)] :
                     ch \in ChoicesFor(tt[Self], FALSE)}
            ELSE UNION {{[ch |-> ch,
                          r |-> ActiveConnectionsChange(Begin(tt[Self]), conns, ch)] :
                           ch \in ChoicesFor(tt[Self], FALSE)} : conns \in JoinConns}
                 \cup (IF tt[Self].installQ = <<>> THEN {}
                       ELSE {[ch |-> ch,
                              r |-> ExeInstalled([Begin(tt[Self]) EXCEPT
                                                    !.installQ = Tail(@)],
                                                 Head(tt[Self].installQ), ch)] :
                               ch \in ChoicesFor(tt[Self], FALSE)})
                 \cup UNION {{[ch |-> ch,
                               r |-> RunExe([Begin(tt[Self]) EXCEPT !.exes = @ \ {e}],
                                            e, ch)] :
                                ch \in ChoicesFor(tt[Self], FALSE)} :
                             e \in tt[Self].exes}) :
            t.r.ticked /\ tt[Self].active[1].cfg.version = 0}

\* The hosts of the goal but the own one, whether a connection is known for
\* every host of the goal, and the roots the other hosts report
Remote == Filter(JoinCfg.hosts, SeqToSet(JoinCfg.hosts) \ {HostOf(Self)})
AllKnown(r) == \A h \in SeqToSet(JoinCfg.hosts) : HostKnown(r.hostToConnection, h)
PeerRoots(r) ==
    {c.root[1] : c \in {d \in r.hostToConnection :
                           d.host \in SeqToSet(Remote) /\ d.root # Nil}}

\* The RMs of the goal: those of the connections to its hosts
GoalRMs(r) == {c.rmId : c \in {d \in r.hostToConnection : d.host \in SeqToSet(JoinCfg.hosts)}}

\* joinCluster leaves the change to the cluster that is there
Delegated(r) ==
    /\ r.lastTxn = Nil /\ r.err = ""
    /\ TaskKind(r) = "joinCluster" /\ r.active = tt[Self].active
    /\ r.task[1].config \in r.senders

\* joinCluster.allJoining has run: it has installed the topology zero with
\* the goal as its next, and its transactions are the creation of the root
\* and the rewrite of the topology with every RM of the goal active
Joined(r) ==
    /\ r.installQ # <<>>
    /\ r.installQ[Len(r.installQ)] # Nil
    /\ r.installQ[Len(r.installQ)][1].next # Nil
    /\ SeqToSet(r.installQ[Len(r.installQ)][1].next[1].cfg.rms) = GoalRMs(r)
    /\ r.lastTxn # Nil =>
          \/ r.lastTxn[1].kind = "createRoot"
          \/ /\ r.lastTxn[1].kind = "modification"
             /\ SeqToSet(r.lastTxn[1].active) = GoalRMs(r)
             /\ Self \in GoalRMs(r) /\ Cardinality(GoalRMs(r)) = Len(JoinCfg.hosts)
             /\ OneEach(r.lastTxn[1].active)
             /\ r.lastTxn[1].passive = <<>>
             /\ SeqToSet(r.lastTxn[1].write[1].cfg.rms) = GoalRMs(r)

\* C32: joinCluster submits no transaction until a connection is known for
\* every host of the goal; two peers with different roots are fatal; if no
\* peer reports a root it runs allJoining with all RMs of the goal, its own
\* too, active and none passive; if a peer reports a root it submits no
\* transaction, shares its goal and waits to observe the change
C32_JoinCluster ==
    \A t \in JoinTicks :
        IF ~AllKnown(t.r) THEN t.r.lastTxn = Nil
        ELSE IF Cardinality(PeerRoots(t.r)) > 1
        THEN t.r.err # "" /\ t.r.lastTxn = Nil /\ t.r.task = Nil
        ELSE IF PeerRoots(t.r) = {} THEN Joined(t.r)
        ELSE Delegated(t.r)

\* With both peers connected and without a root the topology is rewritten
\* with the three RMs active; with one peer reporting a root nothing is
\* submitted
C32_Witness ==
    /\ \E t \in JoinTicks :
          /\ AllKnown(t.r) /\ PeerRoots(t.r) = {}
          /\ t.r.lastTxn # Nil /\ t.r.lastTxn[1].kind = "modification"
    /\ \E t \in JoinTicks :
          /\ AllKnown(t.r) /\ Cardinality(PeerRoots(t.r)) = 1 /\ Delegated(t.r)
    /\ \E t \in JoinTicks : Cardinality(PeerRoots(t.r)) = 2 /\ t.r.err # ""

\* The roots that the peers Self is connected to report
LiveRoots(r) == {c.root[1] : c \in {d \in r.activeConnections : d.rmId # Self /\ d.root # Nil}}

\* C33: the handler that submits the transaction that creates the root has
\* verified the roots of all peers just before: no peer reports a root on
\* the connection Self has to it then; once a peer reports one, neither the
\* creation of the root nor the rewrite of the topology is submitted
C33_RootsVerified ==
    \A t \in JoinTicks :
        t.r.lastTxn # Nil =>
            /\ LiveRoots(t.r) = {} /\ PeerRoots(t.r) = {}
            /\ GoalRMs(t.r) \subseteq {c.rmId : c \in t.r.activeConnections}

\* The creation of the root is to be resubmitted, a peer has acquired a root
\* in the meantime, and the delayed tick submits nothing
C33_Witness ==
    /\ \E e \in tt[Self].exes : e.kind = "tick"
    /\ LiveRoots(tt[Self]) # {}
    /\ \E t \in JoinTicks :
          /\ t.r.activeConnections = tt[Self].activeConnections
          /\ t.r.exes = {}
          /\ t.r.lastTxn = Nil /\ t.r.err = ""

----------------------------------------------------------------------------
(* The delayed tick after a resubmit                                       *)

\* The changes of QuorumSpec run by a build that holds the
\* migrateAwaitImmigrations.tick of src/network/connectionmanager.go
InnerInit ==
    /\ \E base \in QBases :
          /\ tt = (Self :> [TargetNode(base, {QConn(base, h) : h \in SeqToSet(base.hosts)})
                              EXCEPT !.innerRetry = TRUE])
          /\ store = Topology(base, Nil, 1, Some(1))
          /\ led = [base |-> base, sent |-> {}]
    /\ obs = (Self :> <<>>)
    /\ em = NoEmigrator
    /\ net = <<>>
    /\ sts = NoSubmitter
    /\ vm = <<>>
    /\ tc = NoChanges

InnerSpec == InnerInit /\ [][QNext]_vars

\* The closures enqueueTick can have left behind: one for each task id
DelayedTicks ==
    {[kind |-> "tick", task |-> i, cfg |-> Nil, k |-> 1] :
       i \in 1..(Cardinality(UsedIds(tt[Self])) + 1)}

\* The actor as a delayed tick that is run now leaves it
DelayedRuns ==
    IF ~CanReceive(tt[Self]) THEN {}
    ELSE {[e |-> e, r |-> RunExe(Begin(tt[Self]), e, ch)] :
            e \in DelayedTicks, ch \in QChoices(tt[Self])}

\* The handlers whose transaction comes back to be resubmitted
Resubmitted ==
    {r \in QHandled : r.lastTxn # Nil /\ r.lastOutcome = "resubmit" /\ r.err = ""}

\* C34: a topology transaction of a phase that ends in a resubmit leaves a
\* delayed tick for the task that submitted it, which is still the current
\* task; a delayed tick that runs ticks the task that scheduled it when it
\* is the current task and does nothing at all when it is not. It holds of
\* QuorumSpec and fails under InnerSpec, where the delayed tick of
\* migrateAwaitImmigrations is one for its inner state.
C34_DelayedTick ==
    /\ \A r \in Resubmitted :
          /\ TaskKind(r) \in Phases
          /\ \E e \in r.exes : e.kind = "tick" /\ e.task = CurTaskId(r)
    /\ \A t \in DelayedRuns :
          /\ t.r.ticked <=> (t.e.task = CurTaskId(tt[Self]))
          /\ t.e.task # CurTaskId(tt[Self]) => t.r = Begin(tt[Self])
          /\ t.r.ticked /\ t.r.task # Nil /\ t.r.oldTask = CurTaskId(t.r)
                => t.e.task = CurTaskId(t.r)

\* A delayed tick waits for the current task, a phase with a transaction,
\* and a delayed tick of another task would be run in the same state
C34_Witness ==
    /\ CanReceive(tt[Self])
    /\ TaskKind(tt[Self]) \in Phases
    /\ \E e \in tt[Self].exes : e.kind = "tick" /\ e.task = CurTaskId(tt[Self])
    /\ \E t \in DelayedRuns : t.r.ticked
    /\ \E t \in DelayedRuns : ~t.r.ticked

\* The same for joinCluster, whose transactions are those of allJoining:
\* read under JoinSpec
DelayedTickOfJoin ==
    \A t \in JoinTicks :
       t.r.lastTxn # Nil /\ t.r.lastOutcome = "resubmit" /\ t.r.err = ""
          => /\ TaskKind(t.r) = "joinCluster"
             /\ \E e \in t.r.exes : e.kind = "tick" /\ e.task = CurTaskId(t.r)

----------------------------------------------------------------------------
(* The connection manager: its maps servers (host -> connection data) and  *)
(* rmToServer (RM id -> connection data). A connection data is the message *)
(* connectionManagerMsgServerEstablished; conn is its *Connection, 0 for   *)
(* nil. Two of them are the same object when they are equal: the handlers  *)
(* never keep two objects with the same fields.                            *)

MaxCmConns == 2
MaxCmMsgs == 4
MaxCmBootCount == 2
MaxCmTieBreak == 1

\* The host name "" of a connection data whose host was never set
NoHost == 0

CmHosts == {HostOf(Self), HostOf(Peer), HostOf(Third)}
CmRMs == {Self, Peer, Third}
CmConns == 1..MaxCmConns

MapPut(f, k, v) == [x \in (DOMAIN f) \cup {k} |-> IF x = k THEN v ELSE f[x]]
MapDel(f, k) == [x \in (DOMAIN f) \ {k} |-> f[x]]

ConnData(conn, established, host, rmId, bootCount, tieBreak, rootId) ==
    [conn |-> conn, established |-> established, host |-> host, rmId |-> rmId,
     bootCount |-> bootCount, tieBreak |-> tieBreak, rootId |-> rootId]

\* The Connections that the maps of cm hold
UsedConns(cm) ==
    {cm.servers[h].conn : h \in DOMAIN cm.servers}
       \cup {cm.rmToServer[rm].conn : rm \in DOMAIN cm.rmToServer}

\* NewConnectionToDial: a new Connection, one that no map holds and none of
\* CmConns
NewConnectionToDial(cm) ==
    CHOOSE c \in (MaxCmConns + 1)..(MaxCmConns + Cardinality(UsedConns(cm)) + 1) :
       /\ c \notin UsedConns(cm)
       /\ \A d \in (MaxCmConns + 1)..(c - 1) : d \in UsedConns(cm)

\* &connectionManagerMsgServerEstablished{Connection: NewConnectionToDial(host,
\* cm), host: host}
ConnToDial(cm, host) == ConnData(NewConnectionToDial(cm), FALSE, host, 0, 0, 0, Nil)

\* cm.servers[host] = &connectionManagerMsgServerEstablished{...}
Dial(cm, host) == [cm EXCEPT !.servers = MapPut(@, host, ConnToDial(cm, host))]

\* NewConnectionManager: the data of the local RM is registered under its
\* RM id and under the host it has, which is still ""
NewConnectionManager(rmId, bootCount) ==
    [rmId |-> rmId, bootCount |-> bootCount, localHost |-> NoHost,
     desired |-> <<>>,
     servers |-> (NoHost :> ConnData(0, TRUE, NoHost, rmId, bootCount, 0, Nil)),
     rmToServer |-> (rmId :> ConnData(0, TRUE, NoHost, rmId, bootCount, 0, Nil)),
     shutdowns |-> {}, connLost |-> {}, connEstablished |-> {},
     panicked |-> FALSE, handled |-> 0]

\* What a handler starts from: nothing shut down or notified yet. What a
\* handler has shut down and notified is not kept from one message to the
\* next.
CmBegin(cm) == [cm EXCEPT !.shutdowns = {}, !.connLost = {}, !.connEstablished = {}]

\* One turn of actorLoop that leaves the connection manager as cm; handled
\* counts the messages
CmHandled(cm) ==
    /\ tc.handled < MaxCmMsgs
    /\ tc' = [CmBegin(cm) EXCEPT !.handled = @ + 1]

\* cd.Shutdown(paxos.Async): nothing for a nil Connection
CmShutdown(cm, cd) ==
    IF cd.conn = 0 THEN cm ELSE [cm EXCEPT !.shutdowns = @ \cup {cd.conn}]

\* cm.serverConnSubscribers.ServerConnLost and ServerConnEstablished
CmConnLost(cm, rmId) == [cm EXCEPT !.connLost = @ \cup {rmId}]
CmConnEstablished(cm, cd) == [cm EXCEPT !.connEstablished = @ \cup {cd}]

\* A nil pointer dereference ends the process
CmPanic(cm) == [cm EXCEPT !.panicked = TRUE]

\* The first loop of setDesiredServers: a connection to dial for each
\* desired host that has none
RECURSIVE DialDesired(_, _)
DialDesired(cm, hosts) ==
    IF hosts = <<>> THEN cm
    ELSE DialDesired(IF Head(hosts) \in DOMAIN cm.servers THEN cm
                     ELSE Dial(cm, Head(hosts)),
                     Tail(hosts))

\* The second loop of setDesiredServers: the connections that are neither
\* desired nor established are shut down and forgotten
RECURSIVE DropUndesired(_, _)
DropUndesired(cm, hosts) ==
    IF hosts = {} THEN cm
    ELSE LET h == CHOOSE x \in hosts : TRUE
         IN DropUndesired(
               IF /\ ~\E i \in 1..Len(cm.desired) : cm.desired[i] = h
                  /\ ~cm.servers[h].established
               THEN [CmShutdown(cm, cm.servers[h]) EXCEPT !.servers = MapDel(@, h)]
               ELSE cm,
               hosts \ {h})

\* ConnectionManager.setDesiredServers
setDesiredServers(cm, local, remote) ==
    IF cm.localHost # local /\ cm.rmId \notin DOMAIN cm.rmToServer
    THEN CmPanic([cm EXCEPT !.desired = remote, !.localHost = local])
    ELSE LET c0 == [cm EXCEPT !.desired = remote, !.localHost = local]
             cd == [cm.rmToServer[cm.rmId] EXCEPT !.host = local]
             c1 == IF cm.localHost = local THEN c0
                   ELSE CmConnEstablished(
                           [CmConnLost(c0, cd.rmId) EXCEPT
                              !.rmToServer = MapPut(MapDel(@, cd.rmId), cd.rmId, cd),
                              !.servers = MapPut(@, cd.host, cd)],
                           cd)
             c2 == DialDesired(c1, remote)
         IN DropUndesired(c2, DOMAIN c2.servers)

\* The switch of serverEstablished with the lower boot count winning
KillOfLowerBootCount(cd, connEst) ==
    CASE ~cd.established -> [old |-> TRUE, new |-> FALSE]
      [] cd.rmId # connEst.rmId -> [old |-> TRUE, new |-> TRUE]
      [] cd.bootCount > connEst.bootCount -> [old |-> TRUE, new |-> FALSE]
      [] cd.bootCount < connEst.bootCount -> [old |-> FALSE, new |-> TRUE]
      [] cd.tieBreak = connEst.tieBreak -> [old |-> TRUE, new |-> TRUE]
      [] OTHER -> [old |-> cd.tieBreak < connEst.tieBreak,
                   new |-> ~(cd.tieBreak < connEst.tieBreak)]

\* The first half of serverEstablished: [killOld, killNew] for the data cd
\* that servers holds for the host of connEst, of another Connection
KillOf(cd, connEst) ==
    CASE ~cd.established -> [old |-> TRUE, new |-> FALSE]
      [] cd.rmId # connEst.rmId -> [old |-> TRUE, new |-> TRUE]
      [] cd.bootCount < connEst.bootCount -> [old |-> TRUE, new |-> FALSE]
      [] cd.bootCount > connEst.bootCount -> [old |-> FALSE, new |-> TRUE]
      [] cd.tieBreak = connEst.tieBreak -> [old |-> TRUE, new |-> TRUE]
      [] OTHER -> [old |-> cd.tieBreak < connEst.tieBreak,
                   new |-> ~(cd.tieBreak < connEst.tieBreak)]

\* if killOld { ... }
KillOld(cm, cd) ==
    IF cd.established
    THEN CmConnLost([CmShutdown(cm, cd) EXCEPT !.rmToServer = MapDel(@, cd.rmId)],
                    cd.rmId)
    ELSE CmShutdown(cm, cd)

\* The second half of serverEstablished: the safe insert of connEst
SafeInsert(cm, connEst) ==
    IF connEst.rmId \in DOMAIN cm.rmToServer /\ connEst.rmId = cm.rmId
    THEN Dial(CmShutdown(cm, connEst), connEst.host)
    ELSE IF /\ connEst.rmId \in DOMAIN cm.rmToServer
            /\ connEst.host # cm.rmToServer[connEst.rmId].host
    THEN LET cd == cm.rmToServer[connEst.rmId]
         IN Dial(Dial([CmConnLost(CmShutdown(CmShutdown(cm, cd), connEst), cd.rmId)
                          EXCEPT !.rmToServer = MapDel(@, cd.rmId)],
                       cd.host),
                  connEst.host)
    ELSE CmConnEstablished(
            [cm EXCEPT !.servers = MapPut(@, connEst.host, connEst),
                       !.rmToServer = MapPut(@, connEst.rmId, connEst)],
            connEst)

\* ConnectionManager.serverEstablished
serverEstablished(cm, connEst) ==
    IF connEst.host \notin DOMAIN cm.servers
       \/ cm.servers[connEst.host].conn = connEst.conn
    THEN SafeInsert(cm, connEst)
    ELSE LET cd == cm.servers[connEst.host]
             kill == KillOf(cd, connEst)
             c1 == IF kill.old THEN KillOld(cm, cd) ELSE cm
         IN IF kill.new
            THEN IF kill.old
                 THEN Dial(CmShutdown(c1, connEst), cd.host)
                 ELSE CmShutdown(c1, connEst)
            ELSE SafeInsert(c1, connEst)

\* ConnectionManager.serverLost: cd.established = false is seen through
\* every map that holds cd
serverLost(cm, connLost) ==
    IF connLost.rmId \notin DOMAIN cm.rmToServer
       \/ cm.rmToServer[connLost.rmId].conn # connLost.conn
    THEN cm
    ELSE LET cd == cm.rmToServer[connLost.rmId]
             same == cd.host \in DOMAIN cm.servers /\ cm.servers[cd.host] = cd
             c1 == [cm EXCEPT !.rmToServer = MapDel(@, connLost.rmId)]
             c2 == IF ~same THEN c1
                   ELSE IF connLost.restarting
                   THEN [c1 EXCEPT !.servers[cd.host].established = FALSE]
                   ELSE IF \E i \in 1..Len(cm.desired) : cm.desired[i] = cd.host
                   THEN Dial([c1 EXCEPT !.servers = MapDel(@, cd.host)], cd.host)
                   ELSE [c1 EXCEPT !.servers = MapDel(@, cd.host)]
         IN CmConnLost(c2, connLost.rmId)

\* ConnectionManager.setTopology: cd.rootId of a nil cd is a nil pointer
\* dereference
setTopology(cm, rootId) ==
    IF cm.rmId \notin DOMAIN cm.rmToServer THEN CmPanic(cm)
    ELSE IF cm.rmToServer[cm.rmId].rootId = rootId THEN cm
    ELSE LET cd == [cm.rmToServer[cm.rmId] EXCEPT !.rootId = rootId]
         IN CmConnEstablished(
               [CmConnLost(cm, cd.rmId) EXCEPT
                  !.rmToServer = MapPut(MapDel(@, cd.rmId), cd.rmId, cd),
                  !.servers = MapPut(@, cd.host, cd)],
               cd)

\* The Connections that cm holds as established
EstablishedConns(cm) ==
    {cm.servers[h].conn : h \in {x \in DOMAIN cm.servers : cm.servers[x].established}}
       \cup {cm.rmToServer[rm].conn : rm \in DOMAIN cm.rmToServer}

\* What the connections can report: ServerEstablished(conn, host, rmId,
\* bootCount, tieBreak, rootId), from a Connection that a peer has made
\* (for the host the peer says it has) or from one that cm dials or that
\* restarts (for its host); none from a Connection that is established
\* and has not been lost since
ConnEsts(cm) ==
    {e \in {ConnData(c, TRUE, h, rm, b, t, Some(1)) :
               c \in CmConns \cup UsedConns(cm), h \in CmHosts, rm \in CmRMs,
               b \in 1..MaxCmBootCount, t \in 0..MaxCmTieBreak} :
       /\ e.conn # 0
       /\ e.conn \notin EstablishedConns(cm)
       /\ e.conn \in UsedConns(cm)
             => e.host \in DOMAIN cm.servers /\ cm.servers[e.host].conn = e.conn}

\* and ServerLost(conn, rmId, restarting)
ConnLosts(cm) ==
    {[conn |-> c, rmId |-> rm, restarting |-> b] :
       c \in (CmConns \cup UsedConns(cm)) \ {0}, rm \in CmRMs, b \in BOOLEAN}

\* SetDesiredServers(localHost, remoteHosts) as the tasks of the
\* transmogrifier call it: the local host and the other hosts of a topology
DesiredRemotes == {<<>>, <<HostOf(Peer)>>, <<HostOf(Peer), HostOf(Third)>>}

\* actorLoop, connectionManagerMsgSetDesired
CmSetDesired ==
    /\ ~tc.panicked
    /\ \E remote \in DesiredRemotes :
          CmHandled(setDesiredServers(tc, HostOf(Self), remote))
    /\ UNCHANGED <<tt, store, obs, em, net, led, sts, vm>>

\* actorLoop, *connectionManagerMsgServerEstablished
CmServerEstablished ==
    /\ ~tc.panicked
    /\ \E connEst \in ConnEsts(tc) : CmHandled(serverEstablished(tc, connEst))
    /\ UNCHANGED <<tt, store, obs, em, net, led, sts, vm>>

\* actorLoop, connectionManagerMsgServerLost
CmServerLost ==
    /\ ~tc.panicked
    /\ \E connLost \in ConnLosts(tc) : CmHandled(serverLost(tc, connLost))
    /\ UNCHANGED <<tt, store, obs, em, net, led, sts, vm>>

\* actorLoop, connectionManagerMsgSetTopology
CmSetTopology ==
    /\ ~tc.panicked
    /\ \E rootId \in {Nil, Some(1)} : CmHandled(setTopology(tc, rootId))
    /\ UNCHANGED <<tt, store, obs, em, net, led, sts, vm>>

CmInit ==
    /\ tt = <<>>
    /\ store = Nil
    /\ obs = <<>>
    /\ em = NoEmigrator
    /\ net = <<>>
    /\ led = NoLedger
    /\ sts = NoSubmitter
    /\ vm = <<>>
    /\ tc = NewConnectionManager(Self, 1)

CmNext ==
    \/ CmSetDesired
    \/ CmServerEstablished
    \/ CmServerLost
    \/ CmSetTopology

CmSpec == CmInit /\ [][CmNext]_vars

----------------------------------------------------------------------------
(* Duplicate connections                                                   *)

\* The connection manager as each ServerEstablished that can arrive now
\* leaves it
Established ==
    IF tc.panicked THEN {}
    ELSE {[connEst |-> e, r |-> serverEstablished(CmBegin(tc), e)] : e \in ConnEsts(tc)}

\* Those for a host that has an established connection of another
\* Connection
Duplicates ==
    {t \in Established :
       /\ t.connEst.host \in DOMAIN tc.servers
       /\ tc.servers[t.connEst.host].conn # t.connEst.conn
       /\ tc.servers[t.connEst.host].established}

\* The Connections of the data in ds, those that Shutdown reaches
ConnectionsOf(ds) == {d.conn : d \in ds} \ {0}

\* connEst has replaced cd, which was shut down
NewSurvives(t, cd) ==
    /\ t.r.servers[cd.host] = t.connEst
    /\ t.connEst.rmId \in DOMAIN t.r.rmToServer
    /\ t.r.rmToServer[t.connEst.rmId] = t.connEst
    /\ t.r.shutdowns = ConnectionsOf({cd})

\* cd stays as it was and connEst was shut down
OldSurvives(t, cd) ==
    /\ t.r.servers = tc.servers
    /\ t.r.rmToServer = tc.rmToServer
    /\ t.r.shutdowns = ConnectionsOf({t.connEst})

\* Both were shut down, neither is registered and the host is dialled anew
BothShutDown(t, cd) ==
    /\ ~t.r.servers[cd.host].established
    /\ t.r.servers[cd.host].conn \notin UsedConns(tc) \cup {t.connEst.conn}
    /\ cd.rmId \notin DOMAIN t.r.rmToServer
    /\ \A rm \in DOMAIN t.r.rmToServer : t.r.rmToServer[rm] # t.connEst
    /\ t.r.shutdowns = ConnectionsOf({cd, t.connEst})

\* The established connections that servers holds, the data of the local
\* RM (which has no Connection) apart
Registered(cm) ==
    {cm.servers[h] : h \in {x \in DOMAIN cm.servers :
                              cm.servers[x].established /\ cm.servers[x].conn # 0}}

\* C35: a ServerEstablished of another Connection for a host with an
\* established connection: with the same RM id the higher boot count
\* survives, with equal boot counts the higher tie break, with equal tie
\* breaks both are shut down and the host is dialled anew; with different RM
\* ids both are shut down. After every ServerEstablished the established
\* connections registered have different hosts and different RM ids, and
\* each is the one registered for its RM id.
C35_TieBreak ==
    /\ \A t \in Duplicates :
          LET cd == tc.servers[t.connEst.host]
              e == t.connEst
          IN IF cd.rmId # e.rmId THEN BothShutDown(t, cd)
             ELSE IF cd.bootCount < e.bootCount THEN NewSurvives(t, cd)
             ELSE IF cd.bootCount > e.bootCount THEN OldSurvives(t, cd)
             ELSE IF cd.tieBreak < e.tieBreak THEN NewSurvives(t, cd)
             ELSE IF cd.tieBreak > e.tieBreak THEN OldSurvives(t, cd)
             ELSE BothShutDown(t, cd)
    /\ \A t \in Established :
          /\ \A d1, d2 \in Registered(t.r) :
                d1.rmId = d2.rmId \/ d1.host = d2.host => d1 = d2
          /\ \A d \in Registered(t.r) :
                d.rmId \in DOMAIN t.r.rmToServer /\ t.r.rmToServer[d.rmId] = d

\* A duplicate of each kind can arrive: one with the higher boot count, one
\* with the same boot count and the higher tie break, one with the same of
\* both, and one with another RM id
C35_Witness ==
    /\ \E t \in Duplicates :
          LET cd == tc.servers[t.connEst.host]
          IN cd.conn # 0 /\ cd.rmId = t.connEst.rmId
                /\ cd.bootCount < t.connEst.bootCount
    /\ \E t \in Duplicates :
          LET cd == tc.servers[t.connEst.host]
          IN cd.conn # 0 /\ cd.rmId = t.connEst.rmId
                /\ cd.bootCount = t.connEst.bootCount
                /\ cd.tieBreak > t.connEst.tieBreak
    /\ \E t \in Duplicates :
          LET cd == tc.servers[t.connEst.host]
          IN cd.conn # 0 /\ cd.rmId = t.connEst.rmId
                /\ cd.bootCount = t.connEst.bootCount
                /\ cd.tieBreak = t.connEst.tieBreak
    /\ \E t \in Duplicates :
          tc.servers[t.connEst.host].conn # 0
             /\ tc.servers[t.connEst.host].rmId # t.connEst.rmId

\* C39: the data of the local RM is registered under its RM id
C39_LocalRegistered == tc.rmId \in DOMAIN tc.rmToServer

----------------------------------------------------------------------------
(* Goals behind the change in progress                                     *)

\* The actor has a task for a goal older than the change that its active
\* topology has in progress
GoalBehindNext(s) ==
    /\ s.active # Nil
    /\ s.active[1].cfg.version >= 1
    /\ s.active[1].next # Nil
    /\ s.task # Nil
    /\ GoalVersion(s.task[1].config) < s.active[1].next[1].cfg.version

\* C36: targetConfig.tick never returns the error "Confused about what to
\* do", and no handler leaves a task whose goal is older than the change in
\* progress of an active topology of version 1 or more
C36_NeverConfused ==
    /\ tt[Self].err # "Confused about what to do"
    /\ \A r \in PhHandled : r.err = "" => ~GoalBehindNext(r)

\* C37: after each message, an actor that runs and whose active topology
\* has a change in progress has a task, for a goal that is not older than
\* that change
C37_TaskWhileNext ==
    ~tt[Self].terminated /\ tt[Self].active # Nil /\ tt[Self].active[1].next # Nil
       => /\ tt[Self].task # Nil
          /\ GoalVersion(tt[Self].task[1].config)
                >= tt[Self].active[1].next[1].cfg.version

----------------------------------------------------------------------------
(* The sign of the ledger                                                  *)

\* C38: no counter of the migration ledger is negative, neither one that
\* tt.migrations holds nor one that only a running immigration still
\* points to
C38_CountersNotNegative ==
    \A n \in DOMAIN tt :
       /\ \A q \in DOMAIN tt[n].migrations : tt[n].migrations[q] >= 0
       /\ \A q \in DOMAIN tt[n].detached : tt[n].detached[q] >= 0

----------------------------------------------------------------------------
(* The emigrators of one RM over two changes of the topology. Self is an   *)
(* RM of the cluster of three of QuorumSpec, asked for the configuration   *)
(* of version 2 and for the same hosts again as version 3. The connection  *)
(* manager calls the emigrators of Self on its own goroutine; the          *)
(* connections it knows of are taken to be those it last told the actor    *)
(* of. A dbIterator is a scan in tt[Self].scans from startBatch until its  *)
(* ConnectedRMs; net is what the scans of Self have sent to the other RMs, *)
(* the field conn of a message being the RM it went to.                    *)

MaxScans == 2
MaxCompletes == 2

EmBase == QBase(<<1, 2, 3>>, 1)

EmGoals == {GoalOf(QGoalCfg(EmBase)),
            GoalOf([QGoalCfg(EmBase) EXCEPT !.version = 3])}

\* The sets of connections Self may be told of: the RM that the change
\* drops goes away, the new RM comes and goes
EmConns ==
    {{QConn(EmBase, h) : h \in QKnown(EmBase) \ D} :
        D \in {{}, {HostOf(Third)}, {HostOf(Peer), HostOf(Third)},
               {HostOf(Third), HostOf(New)}}}

\* The emigrator that the scan sc holds
EmigratorOf(s, sc) == CHOOSE e \in s.emigrators : e.id = sc.emigrator

\* emigrator.startBatch for the connections conns: go it.iterate()
EmStartBatch(s, e, conns) ==
    IF conns = {} THEN s
    ELSE [s EXCEPT !.scans = @ \cup {[emigrator |-> e.id, conns |-> conns]}]

\* emigrator.ConnectedRMs: a batch for every connected RM of Pending but
\* this one
EmConnectedRMs(s, e, conns) ==
    EmStartBatch(s, e, {c \in conns : c.rmId \in e.targets /\ c.rmId # s.rmId})

\* emigrator.ConnectionEstablished for the connection c
EmConnectionEstablished(s, e, c) ==
    IF c.rmId = s.rmId \/ c.rmId \notin e.targets THEN s
    ELSE EmStartBatch(s, e, {c})

\* The completes of version to the RMs of the set rms, after q
RECURSIVE SendCompletes(_, _, _, _)
SendCompletes(q, version, from, rms) ==
    IF rms = {} THEN q
    ELSE LET m == CHOOSE x \in rms : \A y \in rms : x <= y
         IN  SendCompletes(Append(q, Msg("complete", version, from, m, 0)),
                           version, from, rms \ {m})

\* dbIterator.ConnectedRMs: what has been sent after it, q being what had
\* been sent before
ItConnectedRMs(s, sc, conns, q) ==
    IF EmigratorOf(s, sc).stop THEN q
    ELSE SendCompletes(q, EmigratorOf(s, sc).version, s.rmId,
                       {c.rmId : c \in sc.conns \cap conns})

\* The scan sc is over: nothing holds its dbIterator any more, nor a stopped
\* emigrator that only that dbIterator held
ItDone(s, sc) ==
    [s EXCEPT
       !.scans = @ \ {sc},
       !.emigrators = {e \in @ : \/ ~e.stop
                                 \/ \E o \in s.scans \ {sc} : o.emigrator = e.id}]

\* serverConnSubscribers.AddSubscriber for the emigrator e, asked for by
\* AddSender in newEmigrator
EmSenderAdded(e) ==
    /\ ~e.added
    /\ Cardinality(tt[Self].scans) < MaxScans
    /\ tt' = [tt EXCEPT ![Self] =
                EmConnectedRMs(
                   [tt[Self] EXCEPT !.emigrators =
                       (@ \ {e}) \cup {[e EXCEPT !.added = TRUE]}],
                   e, tt[Self].activeConnections)]
    /\ UNCHANGED <<store, obs, em, net, led, sts, vm, tc>>

\* serverConnSubscribers.ServerConnEstablished: the connection c is a new
\* one, and e is a sender that has not been taken away yet
EmServerEstablished(e, c) ==
    /\ e.added
    /\ Cardinality(tt[Self].scans) < MaxScans
    /\ [emigrator |-> e.id, conns |-> {c}] \notin tt[Self].scans
    /\ EmConnectionEstablished(tt[Self], e, c) # tt[Self]
    /\ tt' = [tt EXCEPT ![Self] = EmConnectionEstablished(tt[Self], e, c)]
    /\ UNCHANGED <<store, obs, em, net, led, sts, vm, tc>>

\* dbIterator.iterate has flushed its batches and AddSender(it) has reached
\* the connection manager, which calls it.ConnectedRMs
EmScanDone(sc) ==
    /\ Len(net) < MaxCompletes
    /\ net' = ItConnectedRMs(tt[Self], sc, tt[Self].activeConnections, net)
    /\ tt' = [tt EXCEPT ![Self] = ItDone(tt[Self], sc)]
    /\ UNCHANGED <<store, obs, em, led, sts, vm, tc>>

\* actorLoop, topologyTransmogrifierMsgRequestConfigChange
EmRequest(goal) ==
    /\ CanReceive(tt[Self])
    /\ QTurn(SelectGoal(Begin(tt[Self]), goal))
    /\ UNCHANGED <<obs, em, net, led, sts, vm, tc>>

EmInit ==
    /\ tt = (Self :> TargetNode(EmBase, {QConn(EmBase, h) : h \in SeqToSet(EmBase.hosts)}))
    /\ store = Topology(EmBase, Nil, 1, Some(1))
    /\ led = [base |-> EmBase, sent |-> {}]
    /\ obs = (Self :> <<>>)
    /\ em = NoEmigrator
    /\ net = <<>>
    /\ sts = NoSubmitter
    /\ vm = <<>>
    /\ tc = NoChanges

EmNext ==
    \/ QTick
    \/ \E conns \in EmConns : QConnections(conns)
    \/ QObserved
    \/ \E goal \in EmGoals : EmRequest(goal)
    \/ QInstalled
    \/ \E e \in tt[Self].exes : QExe(e)
    \/ \E m \in 1..6 : QPeerSupplied(m)
    \/ \E e \in tt[Self].emigrators : EmSenderAdded(e)
    \/ \E e \in tt[Self].emigrators :
          \E c \in tt[Self].activeConnections : EmServerEstablished(e, c)
    \/ \E sc \in tt[Self].scans : EmScanDone(sc)

EmigratorSpec == EmInit /\ [][EmNext]_vars

----------------------------------------------------------------------------
(* The life of an emigrator                                               *)

\* The emigrator of identity i is stopped in the actor r: its flag is set,
\* or nothing holds it any more
StoppedIn(r, i) == \A e \in r.emigrators : e.id = i => e.stop

\* The emigrator of the task is there and runs, and no other emigrator
\* runs
C40_OneRuns ==
    /\ TaskKind(tt[Self]) = "migrate" /\ tt[Self].task[1].emigrator # 0 =>
          \E e \in tt[Self].emigrators :
              e.id = tt[Self].task[1].emigrator /\ ~e.stop
    /\ \A e \in tt[Self].emigrators :
          ~e.stop => /\ TaskKind(tt[Self]) = "migrate"
                     /\ tt[Self].task[1].emigrator = e.id
    /\ \A sc \in tt[Self].scans :
          \E e \in tt[Self].emigrators : e.id = sc.emigrator

\* A step that ends the migrate task stops its emigrator; a scan of a
\* stopped emigrator that ends sends nothing; an emigrator keeps its
\* topology and, once stopped, stays stopped; a new emigrator is that of
\* the migrate task of the step, is an object that nothing held before, and
\* has the active topology of that task
C40_Step ==
    /\ TaskKind(tt[Self]) = "migrate" /\ tt[Self].task[1].emigrator # 0
          /\ CurTaskId(tt'[Self]) # tt[Self].task[1].id
       => StoppedIn(tt'[Self], tt[Self].task[1].emigrator)
    /\ \A sc \in tt[Self].scans \ tt'[Self].scans :
          EmigratorOf(tt[Self], sc).stop => net' = net
    /\ \A e \in tt[Self].emigrators : \A d \in tt'[Self].emigrators :
          d.id = e.id => /\ d.version = e.version
                         /\ d.targets = e.targets
                         /\ e.stop => d.stop
    /\ \A d \in tt'[Self].emigrators :
          d.id \notin {e.id : e \in tt[Self].emigrators} =>
             /\ ~d.stop
             /\ \A sc \in tt[Self].scans : sc.emigrator # d.id
             /\ TaskKind(tt'[Self]) = "migrate"
             /\ tt'[Self].task[1].emigrator = d.id
             /\ TaskKind(tt[Self]) = "migrate" /\ CurTaskId(tt[Self]) = CurTaskId(tt'[Self])
                   => tt[Self].task[1].emigrator = 0
             /\ tt'[Self].active # Nil /\ tt'[Self].active[1].next # Nil
             /\ d.version = tt'[Self].active[1].next[1].cfg.version
             /\ d.version = GoalVersion(tt'[Self].task[1].config)
             /\ d.targets = (DOMAIN tt'[Self].active[1].next[1].pending) \ {Self}

\* C40: when a migrate task is abandoned or completed its emigrator is
\* stopped, and a scan of that emigrator that looks at the stop flag after
\* that sends no complete to any RM; a stopped emigrator is never started
\* again, and a later migrate task makes a new emigrator that holds the
\* topology that is active then
C40_StoppedEmigratorStaysStopped == []C40_OneRuns /\ [][C40_Step]_vars

\* The migrate task for version 2 was abandoned while a scan of its
\* emigrator ran: that emigrator is stopped, and the migrate task for
\* version 3 has made its own
C40_Witness ==
    /\ TaskKind(tt[Self]) = "migrate"
    /\ tt[Self].task[1].emigrator # 0
    /\ \E e \in tt[Self].emigrators, sc \in tt[Self].scans :
          /\ e.stop /\ e.version = 2
          /\ sc.emigrator = e.id
    /\ \E d \in tt[Self].emigrators :
          /\ d.id = tt[Self].task[1].emigrator
          /\ ~d.stop /\ d.version = 3

====
